---- MODULE Spec2Model ----
(***************************************************************************)
(* A model of BlastMidi (blastmidi.c, blastmidi.h, blastmidi_utility.h):   *)
(* the document instance, the event heap with its per-track doubly linked  *)
(* lists, the event factories, and the streaming decoder that              *)
(* blastmidi_read drives over a caller-supplied byte stream.               *)
(*                                                                         *)
(* Pointers are addresses 1..MaxEvents, NULL is 0.  A freed event keeps    *)
(* its stale contents until the allocator hands the address out again;     *)
(* the allocator may hand out any free address, so a dangling pointer may  *)
(* or may not alias a later event.  Touching or freeing a freed event sets *)
(* ub.                                                                     *)
(***************************************************************************)
EXTENDS Integers, Sequences, FiniteSets, TLC

VARIABLES
    instance,   \* the blastmidi structure
    heap,       \* address -> blastmidi_event structure (live or freed)
    adapter,    \* the byte source behind data_callback: stream, position
    host,       \* TRUE on a little endian host
    leaked,     \* data blocks that no pointer refers to any more
    ub,         \* undefined behaviour has happened (use after free, double free)
    pc,         \* position inside blastmidi_read: "idle", "track", "events"
    cur_track,  \* the loop variable i of blastmidi_read
    call        \* the last API call: its name, arguments, result and out-pointer

vars == <<instance, heap, adapter, host, leaked, ub, pc, cur_track, call>>

----------------------------------------------------------------------------
(* Bounds of the model *)

MaxEvents == 3
MaxLeaked == 1

(* Program constants *)

BLASTMIDI_OK == 0
BLASTMIDI_INVALIDPARAM == 1
BLASTMIDI_OUTOFMEMORY == 2
BLASTMIDI_ALREADYADDED == 3
BLASTMIDI_NOTADDED == 4
BLASTMIDI_NOTPARTOFTRACK == 5
BLASTMIDI_NOCALLBACK == 6
BLASTMIDI_INVALIDCHUNK == 7
BLASTMIDI_UNEXPECTEDEND == 9
BLASTMIDI_INVALID == 11

BLASTMIDI_META_SEQUENCE_NUMBER == 0
BLASTMIDI_META_TEXT == 1
BLASTMIDI_META_COPYRIGHT_NOTICE == 2
BLASTMIDI_META_SEQUENCE_OR_TRACK_NAME == 3
BLASTMIDI_META_INSTRUMENT_NAME == 4
BLASTMIDI_META_LYRICS == 5
BLASTMIDI_META_MARKER == 6
BLASTMIDI_META_CUE_POINT == 7
BLASTMIDI_META_MIDI_CHANNEL_PREFIX == 32
BLASTMIDI_META_END_OF_TRACK == 47
BLASTMIDI_META_SET_TEMPO == 81
BLASTMIDI_META_SMPTE_OFFSET == 84
BLASTMIDI_META_TIME_SIGNATURE == 88
BLASTMIDI_META_KEY_SIGNATURE == 89
BLASTMIDI_META_SEQUENCER_SPECIFIC == 127

BLASTMIDI_CHANNEL_NOTE_OFF == 8
BLASTMIDI_CHANNEL_NOTE_ON == 9
BLASTMIDI_CHANNEL_NOTE_AFTERTOUCH == 10
BLASTMIDI_CHANNEL_CONTROLLER == 11
BLASTMIDI_CHANNEL_PROGRAM_CHANGE == 12
BLASTMIDI_CHANNEL_CHANNEL_AFTERTOUCH == 13
BLASTMIDI_CHANNEL_PITCH_BEND == 14

BLASTMIDI_CHANNEL_EVENT == 1
BLASTMIDI_META_EVENT == 2
BLASTMIDI_SYSEX_EVENT == 3

NULL == 0
SmallPoolSize == 2
UNINIT == 255 + 1   \* a byte of memory that nothing has written yet

Addr == 1..MaxEvents

----------------------------------------------------------------------------
(* Integer widths and the bit helpers of blastmidi_utility.h *)

RECURSIVE Pow2(_)
Pow2(n) == IF n = 0 THEN 1 ELSE 2 * Pow2(n - 1)

\* uint16_t -> int16_t and uint8_t -> int8_t as two's complement builds convert
ToInt16(v) == IF (v % 65536) >= 32768 THEN (v % 65536) - 65536 ELSE v % 65536
ToInt8(v) == IF (v % 256) >= 128 THEN (v % 256) - 256 ELSE v % 256
Abs(v) == IF v < 0 THEN 0 - v ELSE v

extract_bits_8(value, a, b) ==
    ((value * Pow2(a - 1)) % 256) \div Pow2(7 - (b - a))

extract_bits_16(value, a, b) ==
    ((value * Pow2(a - 1)) % 65536) \div Pow2(15 - (b - a))

\* A uint32_t is held as its two 16 bit halves <<high, low>>.
U32(n) == <<n \div 65536, n % 65536>>

ShiftLeft32(x, k) ==
    IF k >= 16 THEN <<(x[2] * Pow2(k - 16)) % 65536, 0>>
    ELSE <<((x[1] * Pow2(k)) % 65536) + ((x[2] * Pow2(k)) \div 65536),
           (x[2] * Pow2(k)) % 65536>>

ShiftRight32(x, k) ==
    IF k >= 16 THEN <<0, x[1] \div Pow2(k - 16)>>
    ELSE <<x[1] \div Pow2(k),
           ((x[1] % Pow2(k)) * Pow2(16 - k)) + (x[2] \div Pow2(k))>>

extract_bits_32(value, a, b) ==
    ShiftRight32(ShiftLeft32(value, a - 1), 31 - (b - a))

swap_16(x) == ((x % 256) * 256) + ((x \div 256) % 256)


\* swap_32 without its second line: the halves change places and that is all
swap_32_halves(x) == <<x[2], x[1]>>

\* first the halves change places, then the bytes inside each half
swap_32(x) ==
    LET y == <<x[2], x[1]>>
    IN  <<swap_16(y[1]), swap_16(y[2])>>

convert_endian_16(x, endian_flag) ==
    IF endian_flag = 1 THEN swap_16(x) ELSE x

convert_endian_32(x, endian_flag) ==
    IF endian_flag = 1 THEN swap_32(x) ELSE x

\* The value of an integer object whose bytes in memory are b (lowest address
\* first), and the bytes in memory of a value, on this host.
RECURSIVE FromMem(_, _)
FromMem(b, little) ==
    IF b = <<>> THEN 0
    ELSE IF little THEN b[1] + 256 * FromMem(Tail(b), little)
    ELSE b[1] * Pow2(8 * (Len(b) - 1)) + FromMem(Tail(b), little)

RECURSIVE ToMem(_, _, _)
ToMem(v, n, little) ==
    IF n = 0 THEN <<>>
    ELSE IF little THEN <<v % 256>> \o ToMem(v \div 256, n - 1, little)
    ELSE <<(v \div Pow2(8 * (n - 1))) % 256>> \o ToMem(v, n - 1, little)

\* the same for a uint32_t object
FromMem32(b, little) ==
    IF little THEN <<FromMem(<<b[3], b[4]>>, little), FromMem(<<b[1], b[2]>>, little)>>
    ELSE <<FromMem(<<b[1], b[2]>>, little), FromMem(<<b[3], b[4]>>, little)>>

ToMem32(v, little) ==
    IF little THEN ToMem(v[2], 2, little) \o ToMem(v[1], 2, little)
    ELSE ToMem(v[1], 2, little) \o ToMem(v[2], 2, little)

is_little_endian == host

----------------------------------------------------------------------------
(* The byte stream behind the data callback.  A stream is head, then count *)
(* copies of rep, then tail; positions start at 0.                         *)

StreamLen(s) == Len(s.head) + s.count * Len(s.rep) + Len(s.tail)

ByteAt(s, p) ==
    IF p < Len(s.head) THEN s.head[p + 1]
    ELSE IF p < Len(s.head) + s.count * Len(s.rep)
         THEN s.rep[((p - Len(s.head)) % Len(s.rep)) + 1]
    ELSE s.tail[(p - Len(s.head) - s.count * Len(s.rep)) + 1]

Plain(bytes) == [head |-> bytes, rep |-> <<>>, count |-> 0, tail |-> <<>>]

----------------------------------------------------------------------------
(* The files offered to blastmidi_read.  A token is the bytes of one event *)
(* with its delta time, and what the event should decode to.               *)

MThd == <<77, 84, 104, 100>>
MTrk == <<77, 84, 114, 107>>

BE16(v) == <<(v \div 256) % 256, v % 256>>
BE32(v) == BE16(v \div 65536) \o BE16(v % 65536)

Header(format, ntracks, division) ==
    MThd \o BE32(6) \o BE16(format) \o BE16(ntracks) \o BE16(division)

Expect(time, type, subtype, channel, data, eos) ==
    [time |-> time, type |-> type, subtype |-> subtype, channel |-> channel,
     data |-> data, end_of_sysex |-> eos]

TokNoteOn ==
    [bytes |-> <<0, 144, 60, 64>>,
     ev |-> <<Expect(0, BLASTMIDI_CHANNEL_EVENT, BLASTMIDI_CHANNEL_NOTE_ON, 0, <<60, 64>>, 0)>>]
TokNoteOff ==
    [bytes |-> <<96, 128, 60, 0>>,
     ev |-> <<Expect(96, BLASTMIDI_CHANNEL_EVENT, BLASTMIDI_CHANNEL_NOTE_OFF, 0, <<60, 0>>, 0)>>]
TokRunning ==
    [bytes |-> <<129, 0, 62, 64>>,
     ev |-> <<Expect(128, BLASTMIDI_CHANNEL_EVENT, BLASTMIDI_CHANNEL_NOTE_ON, 0, <<62, 64>>, 0)>>]
TokProgram ==
    [bytes |-> <<0, 195, 5>>,
     ev |-> <<Expect(0, BLASTMIDI_CHANNEL_EVENT, BLASTMIDI_CHANNEL_PROGRAM_CHANGE, 3, <<5>>, 0)>>]
TokText ==
    [bytes |-> <<0, 255, 1, 3, 97, 98, 99>>,
     ev |-> <<Expect(0, BLASTMIDI_META_EVENT, BLASTMIDI_META_TEXT, -1, <<97, 98, 99>>, 0)>>]
TokEmptyText ==
    [bytes |-> <<0, 255, 1, 0>>,
     ev |-> <<Expect(0, BLASTMIDI_META_EVENT, BLASTMIDI_META_TEXT, -1, <<>>, 0)>>]
TokSysex ==
    [bytes |-> <<0, 240, 3, 1, 2, 247>>,
     ev |-> <<Expect(0, BLASTMIDI_SYSEX_EVENT, 0, -1, <<1, 2>>, 1)>>]
TokUnknownMeta ==
    [bytes |-> <<0, 255, 9, 2, 7, 7>>, ev |-> <<>>]
TokEndOfTrack ==
    [bytes |-> <<0, 255, 47, 0>>, ev |-> <<>>]

RECURSIVE TokBytes(_)
TokBytes(toks) == IF toks = <<>> THEN <<>> ELSE Head(toks).bytes \o TokBytes(Tail(toks))

RECURSIVE TokEvents(_)
TokEvents(toks) == IF toks = <<>> THEN <<>> ELSE Head(toks).ev \o TokEvents(Tail(toks))

\* a track chunk whose events are the tokens followed by end of track
Chunk(toks) ==
    LET body == TokBytes(toks) \o TokEndOfTrack.bytes
    IN  MTrk \o BE32(Len(body)) \o body

RECURSIVE Chunks(_)
Chunks(tracks) == IF tracks = <<>> THEN <<>> ELSE Chunk(Head(tracks)) \o Chunks(Tail(tracks))

\* A well-formed file: its bytes, and per track index the events expected
\* (a track that is not listed expects none)
WellFormed(format, division, tracks) ==
    [stream |-> Plain(Header(format, Len(tracks), division) \o Chunks(tracks)),
     wellformed |-> TRUE,
     ntracks |-> Len(tracks),
     expect |-> [i \in 0..(Len(tracks) - 1) |-> TokEvents(tracks[i + 1])]]

Broken(bytes) ==
    [stream |-> Plain(bytes), wellformed |-> FALSE, ntracks |-> 0,
     expect |-> [i \in {} |-> <<>>]]

\* the largest track count a header can declare
MaxTracks == 65535

\* MaxTracks tracks: all empty but the last, which holds one note
WideFile ==
    [stream |-> [head |-> Header(1, MaxTracks, 96), rep |-> Chunk(<<>>),
                 count |-> MaxTracks - 1, tail |-> Chunk(<<TokNoteOn>>)],
     wellformed |-> TRUE,
     ntracks |-> MaxTracks,
     expect |-> [i \in {MaxTracks - 1} |-> TokNoteOn.ev]]

\* division 96: 96 ticks per beat; 59176 = 0xE728: frame code -25, 40 ticks per
\* frame; 59136 = 0xE700: no ticks per frame; 58408 = 0xE428: frame code -28
Files ==
    [none |-> Broken(<<>>),
     two_notes |-> WellFormed(0, 96, <<(<<TokNoteOn, TokNoteOff>>)>>),
     smpte |-> WellFormed(1, 59176, <<(<<TokNoteOn, TokRunning>>), (<<TokProgram>>)>>),
     texts |-> WellFormed(2, 96, <<(<<TokText, TokUnknownMeta>>), <<>>>>),
     empty_text |-> WellFormed(1, 96, <<(<<TokSysex>>), (<<TokEmptyText>>)>>),
     two_tracks |-> WellFormed(1, 96, <<(<<TokNoteOn>>), <<>>>>),
     wide |-> WideFile,
     bad_magic |-> Broken(<<77, 84, 104, 120>> \o BE32(6) \o BE16(0) \o BE16(1) \o BE16(96)),
     bad_length |-> Broken(MThd \o BE32(7) \o BE16(0) \o BE16(1) \o BE16(96) \o <<0>>),
     no_tracks |-> Broken(Header(0, 0, 96)),
     format_3 |-> Broken(Header(3, 1, 96)),
     no_ticks |-> Broken(Header(0, 1, 0)),
     no_frame_ticks |-> Broken(Header(0, 1, 59136)),
     bad_frames |-> Broken(Header(0, 1, 58408)),
     no_end |-> Broken(Header(0, 1, 96) \o MTrk \o BE32(8) \o TokNoteOn.bytes),
     bad_status |-> Broken(Header(1, 2, 96) \o Chunk(<<TokNoteOn, TokText>>) \o MTrk
                           \o BE32(4) \o TokNoteOff.bytes \o <<0, 241>>),
     second_header |-> Broken(Header(1, 2, 96) \o Chunk(<<TokNoteOn>>)
                              \o <<77, 84, 104, 100>>),
     long_delta |-> Broken(Header(0, 1, 96) \o MTrk \o BE32(6)
                           \o <<129, 129, 129, 129, 0, 255>>),
     long_meta_length |-> Broken(Header(0, 1, 96) \o MTrk \o BE32(8)
                                 \o <<0, 255, 1, 129, 129, 129, 129, 0>>),
     long_sysex_length |-> Broken(Header(0, 1, 96) \o MTrk \o BE32(7)
                                  \o <<0, 240, 129, 129, 129, 129, 0>>),
     long_escape_length |-> Broken(Header(0, 1, 96) \o MTrk \o BE32(7)
                                   \o <<0, 247, 129, 129, 129, 129, 0>>),
     pipe_running |-> Broken(Header(0, 1, 96) \o MTrk \o BE32(10)
                             \o <<0, 192, 5, 0, 6, 9, 0, 255, 47, 0>>),
     pipe_unknown_meta |-> Broken(Header(0, 1, 96) \o Chunk(<<TokUnknownMeta>>)),
     pipe_smpte_offset |-> Broken(Header(0, 1, 96) \o MTrk \o BE32(13)
                                  \o <<0, 255, 84, 5, 1, 2, 3, 4, 5, 0, 255, 47, 0>>)]

GoodStreams == {"two_notes", "smpte", "texts", "empty_text"}

BadStreams ==
    {"bad_magic", "no_tracks", "format_3", "no_ticks", "no_frame_ticks", "bad_frames",
     "no_end", "bad_status", "second_header", "long_delta"}

Streams == GoodStreams \cup BadStreams

ListStreams == {"two_tracks", "bad_magic"}

\* one file for each header field that is refused
HeaderStreams == {"bad_magic", "bad_length", "format_3", "no_tracks"}

WideStreams == {"wide"}

\* a number of five bytes as delta time, as the length of a meta event and as
\* the length of the two kinds of sysex event
LongNumberStreams ==
    {"long_delta", "long_meta_length", "long_sysex_length", "long_escape_length"}

\* files behind a callback that cannot seek, such as a pipe: it answers every
\* seek action with 0.  One has a running status byte, one a meta event of a
\* type that is skipped, one an SMPTE offset.
Pipes == {"pipe_running", "pipe_unknown_meta", "pipe_smpte_offset"}

\* the bytes behind an adapter: a named file, or a buffer the caller holds in
\* memory
StreamOf(ad) == IF ad.file = "memory" THEN ad.stream ELSE Files[ad.file].stream

----------------------------------------------------------------------------
(* The data callback of the caller: a file and a position in it *)

NoAdapter == [file |-> "none", pos |-> 0]

\* a callback that serves the bytes of a buffer
MemoryAdapter(bytes) == [file |-> "memory", pos |-> 0, stream |-> Plain(bytes)]

\* data_callback ( BLASTMIDI_CALLBACK_READ, size, buffer, user_data )
CallbackRead(ad, size) ==
    LET From(s) ==
            IF ad.pos + size <= StreamLen(s)
            THEN [ok |-> TRUE,
                  ad |-> [ad EXCEPT !.pos = @ + size],
                  bytes |-> [k \in 1..size |-> ByteAt(s, ad.pos + k - 1)]]
            ELSE [ok |-> FALSE, ad |-> ad, bytes |-> <<>>]
    IN  From(StreamOf(ad))

\* data_callback ( BLASTMIDI_CALLBACK_SEEK, position, NULL, user_data )
CallbackSeek(ad, position) ==
    IF ad.file \notin Pipes /\ position >= 0 /\ position <= StreamLen(StreamOf(ad))
    THEN [ok |-> TRUE, ad |-> [ad EXCEPT !.pos = position]]
    ELSE [ok |-> FALSE, ad |-> ad]

----------------------------------------------------------------------------
(* The document and the event heap *)

EmptySlots == [t \in {} |-> NULL]
NoArray == [alloc |-> FALSE, slot |-> EmptySlots]
ZeroedArray == [alloc |-> TRUE, slot |-> EmptySlots]

\* array[t] of a zero-initialised pointer array that stores its non-NULL slots
Slot(array, t) == IF t \in DOMAIN array.slot THEN array.slot[t] ELSE NULL

SetSlot(array, t, p) ==
    IF p = NULL
    THEN [array EXCEPT !.slot = [x \in (DOMAIN array.slot) \ {t} |-> array.slot[x]]]
    ELSE [array EXCEPT !.slot = [x \in (DOMAIN array.slot) \cup {t} |->
                                    IF x = t THEN p ELSE array.slot[x]]]

BlankEvent ==
    [live |-> FALSE, track |-> 0, time |-> 0, type |-> 0, subtype |-> 0,
     channel |-> 0, data |-> <<>>, data_size |-> 0, data_kind |-> "none",
     end_of_sysex |-> 0, previous |-> NULL, next |-> NULL]

\* what is left where an event was freed
FreedEvent == [BlankEvent EXCEPT !.data_kind = "freed"]

\* memset ( instance, 0, sizeof ( blastmidi ) )
ZeroInstance ==
    [data_callback |-> FALSE, endian_flag |-> 0, malloc_function |-> "NULL",
     free_function |-> "NULL",
     track_count |-> 0, file_type |-> 0, time_type |-> 0, ticks_per_beat |-> 0,
     SMPTE_frames |-> 0, ticks_per_frame |-> 0, valid |-> 0,
     tracks |-> NoArray, track_ends |-> NoArray, cursor |-> 0,
     running_status |-> 0, sysex_continuation |-> 0]

\* The state the operations below work on.  oom records that malloc returned
\* NULL for a request of more than 0 bytes during the current call.
World == [inst |-> instance, heap |-> heap, ad |-> adapter, leaked |-> leaked,
          ub |-> ub, oom |-> IF pc = "idle" THEN FALSE ELSE call.oom]

\* A read or write through a pointer to an event that has been freed
Touch(w, e) == IF e # NULL /\ ~w.heap[e].live THEN [w EXCEPT !.ub = TRUE] ELSE w

\* malloc for an event structure gives NULL or a block that was never handed
\* out before: a pointer to a freed event never comes to name a newer event.
\* Which block it is does not matter to the library; the lowest stands for it.
FreeAddrs(w) ==
    LET free == {a \in Addr : ~w.heap[a].live /\ w.heap[a].data_kind = "none"}
    IN  {a \in free : \A b \in free : a <= b}

RECURSIVE BitOr(_, _)
BitOr(x, y) ==
    IF x = 0 THEN y
    ELSE IF y = 0 THEN x
    ELSE (IF (x % 2) + (y % 2) > 0 THEN 1 ELSE 0) + 2 * BitOr(x \div 2, y \div 2)

NullData == [null |-> TRUE, bytes |-> <<>>]
Data(b) == [null |-> FALSE, bytes |-> b]

----------------------------------------------------------------------------
(* Releasing: blastmidi_event_free, blastmidi_whipe_track, reset *)

blastmidi_event_free(w, event) ==
    IF ~w.heap[event].live
    THEN [w EXCEPT !.ub = TRUE]
    ELSE LET ev == w.heap[event]
             data_freed == ev.data_kind = "block" /\ ev.data_size > SmallPoolSize
             data_lost == ev.data_kind = "block" /\ ~data_freed
         IN  [w EXCEPT !.heap[event] = FreedEvent,
                       !.leaked = IF data_lost THEN @ + 1 ELSE @]

\* the while loop of blastmidi_whipe_track; a pointer met twice ends it
RECURSIVE whipe_loop(_, _, _)
whipe_loop(w, current, seen) ==
    IF current = NULL THEN w
    ELSE IF current \in seen THEN [w EXCEPT !.ub = TRUE]
    ELSE LET w1 == Touch(w, current)
             next == w1.heap[current].next
         IN  whipe_loop(blastmidi_event_free(w1, current), next, seen \cup {current})

blastmidi_whipe_track(w, track) ==
    IF track >= w.inst.track_count THEN w
    ELSE whipe_loop(w, Slot(w.inst.tracks, track), {})

\* for ( i = 0; i < track_count; ++i ) blastmidi_whipe_track ( instance, i ),
\* over the slots that are not NULL, lowest first
RECURSIVE whipe_all(_, _)
whipe_all(w, todo) ==
    IF todo = {} THEN w
    ELSE LET i == CHOOSE x \in todo : \A y \in todo : x <= y
         IN  whipe_all(blastmidi_whipe_track(w, i), todo \ {i})

reset(w) ==
    LET w1 == IF w.inst.tracks.alloc
              THEN whipe_all(w, DOMAIN w.inst.tracks.slot)
              ELSE w
    IN  [w1 EXCEPT !.inst.tracks = NoArray,
                   !.inst.track_ends = NoArray,
                   !.inst.track_count = 0,
                   !.inst.file_type = 0,
                   !.inst.time_type = 0,
                   !.inst.ticks_per_beat = 0,
                   !.inst.SMPTE_frames = 0,
                   !.inst.ticks_per_frame = 0,
                   !.inst.valid = 0,
                   !.inst.cursor = 0,
                   !.inst.running_status = 0,
                   !.inst.sysex_continuation = 0]

----------------------------------------------------------------------------
(* Allocating: allocate_tracks, allocate_event and the event factories.    *)
(* What malloc returns is an input: got1, got2 say whether the two array   *)
(* allocations succeed, addr is the address returned for the event         *)
(* structure (NULL when it fails) and blk whether the data block is given. *)

allocate_tracks(w, got1, got2) ==
    IF ~got1
    THEN [w |-> [reset(w) EXCEPT !.oom = TRUE], result |-> BLASTMIDI_OUTOFMEMORY]
    ELSE LET w1 == [w EXCEPT !.inst.tracks = ZeroedArray]
         IN  IF ~got2
             THEN [w |-> [reset(w1) EXCEPT !.oom = TRUE],
                   result |-> BLASTMIDI_OUTOFMEMORY]
             ELSE [w |-> [w1 EXCEPT !.inst.track_ends = ZeroedArray],
                   result |-> BLASTMIDI_OK]

allocate_event(w, type, subtype, data, data_size, addr, blk) ==
    IF addr = NULL
    THEN [w |-> [w EXCEPT !.oom = TRUE], result |-> BLASTMIDI_OUTOFMEMORY,
          event |-> NULL]
    ELSE LET pooled == data_size > 0 /\ data_size <= SmallPoolSize
             bytes == IF data.null THEN [k \in 1..data_size |-> UNINIT]
                      ELSE SubSeq(data.bytes, 1, data_size)
             output == [live |-> TRUE, track |-> -1, time |-> 0, type |-> type,
                        subtype |-> subtype, channel |-> -1, data |-> bytes,
                        data_size |-> data_size,
                        data_kind |-> IF pooled THEN "pool" ELSE "block",
                        end_of_sysex |-> 0, previous |-> NULL, next |-> NULL]
         IN  IF ~pooled /\ ~blk
             THEN \* malloc ( data_size ) returned NULL: the structure is freed
                  [w |-> [w EXCEPT !.oom = @ \/ data_size > 0],
                   result |-> BLASTMIDI_OUTOFMEMORY, event |-> NULL]
             ELSE [w |-> [w EXCEPT !.heap[addr] = output],
                   result |-> BLASTMIDI_OK, event |-> addr]

ChannelSubtypes ==
    {BLASTMIDI_CHANNEL_NOTE_OFF, BLASTMIDI_CHANNEL_NOTE_ON,
     BLASTMIDI_CHANNEL_NOTE_AFTERTOUCH, BLASTMIDI_CHANNEL_CONTROLLER,
     BLASTMIDI_CHANNEL_PROGRAM_CHANGE, BLASTMIDI_CHANNEL_CHANNEL_AFTERTOUCH,
     BLASTMIDI_CHANNEL_PITCH_BEND}

\* the 16 bit value the pitch bend case builds from its two parameters
pitch_bend_value(param_1, param_2) ==
    LET p1 == extract_bits_8(param_1, 2, 8)
        p2 == extract_bits_8(param_2, 2, 8)
        t1 == (p1 * 256) % 65536
        t2 == BitOr(t1, p2 * 2) % 65536
    IN  t2 \div 2

\* blastmidi_event_create_channel_event with a switch that has no default
\* case: a subtype it does not know is stored with one data byte
create_channel_event_without_default(w, channel, subtype, param_1, param_2, addr, blk) ==
    LET two == subtype \in {BLASTMIDI_CHANNEL_NOTE_OFF, BLASTMIDI_CHANNEL_NOTE_ON,
                            BLASTMIDI_CHANNEL_NOTE_AFTERTOUCH,
                            BLASTMIDI_CHANNEL_CONTROLLER}
        data == IF two THEN <<param_1, param_2>>
                ELSE IF subtype = BLASTMIDI_CHANNEL_PITCH_BEND
                     THEN ToMem(pitch_bend_value(param_1, param_2), 2, host)
                ELSE <<param_1>>
        r == allocate_event(w, BLASTMIDI_CHANNEL_EVENT, subtype, Data(data),
                            Len(data), addr, blk)
    IN  IF r.result # BLASTMIDI_OK THEN r
        ELSE [r EXCEPT !.w.heap[r.event].channel = ToInt8(channel)]

blastmidi_event_create_channel_event(w, channel, subtype, param_1, param_2, addr, blk) ==
    IF subtype \notin ChannelSubtypes
    THEN [w |-> w, result |-> BLASTMIDI_INVALIDPARAM, event |-> NULL]
    ELSE LET two == subtype \in {BLASTMIDI_CHANNEL_NOTE_OFF, BLASTMIDI_CHANNEL_NOTE_ON,
                                 BLASTMIDI_CHANNEL_NOTE_AFTERTOUCH,
                                 BLASTMIDI_CHANNEL_CONTROLLER}
             data == IF two THEN <<param_1, param_2>>
                     ELSE IF subtype = BLASTMIDI_CHANNEL_PITCH_BEND
                          THEN ToMem(pitch_bend_value(param_1, param_2), 2, host)
                     ELSE <<param_1>>
             r == allocate_event(w, BLASTMIDI_CHANNEL_EVENT, subtype, Data(data),
                                 Len(data), addr, blk)
         IN  IF r.result # BLASTMIDI_OK THEN r
             ELSE [r EXCEPT !.w.heap[r.event].channel = ToInt8(channel)]

blastmidi_event_create_meta_sequence_number_event(w, sequence_number, addr, blk) ==
    allocate_event(w, BLASTMIDI_META_EVENT, BLASTMIDI_META_SEQUENCE_NUMBER,
                   Data(ToMem(sequence_number, 2, host)), 2, addr, blk)

blastmidi_event_create_meta_tempo_event(w, tempo, addr, blk) ==
    allocate_event(w, BLASTMIDI_META_EVENT, BLASTMIDI_META_SET_TEMPO,
                   Data(ToMem32(tempo, host)), 4, addr, blk)

MetaDataSubtypes ==
    {BLASTMIDI_META_TEXT, BLASTMIDI_META_COPYRIGHT_NOTICE,
     BLASTMIDI_META_SEQUENCE_OR_TRACK_NAME, BLASTMIDI_META_INSTRUMENT_NAME,
     BLASTMIDI_META_LYRICS, BLASTMIDI_META_MARKER, BLASTMIDI_META_CUE_POINT,
     BLASTMIDI_META_SEQUENCER_SPECIFIC}

blastmidi_event_create_meta_data_event(w, subtype, data, data_size, addr, blk) ==
    IF subtype \notin MetaDataSubtypes
    THEN [w |-> w, result |-> BLASTMIDI_INVALIDPARAM, event |-> NULL]
    ELSE allocate_event(w, BLASTMIDI_META_EVENT, subtype, data, data_size, addr, blk)

blastmidi_event_create_meta_midi_channel_prefix_event(w, channel, addr, blk) ==
    allocate_event(w, BLASTMIDI_META_EVENT, BLASTMIDI_META_MIDI_CHANNEL_PREFIX,
                   Data(<<channel>>), 1, addr, blk)

blastmidi_event_create_meta_time_signature_event(w, numerator, denominator, metronome, thirtyseconds, addr, blk) ==
    allocate_event(w, BLASTMIDI_META_EVENT, BLASTMIDI_META_TIME_SIGNATURE,
                   Data(<<numerator, denominator, metronome, thirtyseconds>>), 4,
                   addr, blk)

blastmidi_event_create_meta_key_signature_event(w, key, scale, addr, blk) ==
    allocate_event(w, BLASTMIDI_META_EVENT, BLASTMIDI_META_KEY_SIGNATURE,
                   Data(<<key % 256, scale>>), 2, addr, blk)

blastmidi_event_create_sysex_event(w, data, data_size, end_of_sysex, addr, blk) ==
    LET Set(r) ==
            IF r.result # BLASTMIDI_OK THEN r
            ELSE [r EXCEPT !.w.heap[r.event].end_of_sysex = end_of_sysex]
    IN  Set(allocate_event(w, BLASTMIDI_SYSEX_EVENT, 0, data, data_size, addr, blk))

----------------------------------------------------------------------------
(* The track lists: attach, navigate, remove *)

\* blastmidi_add_event taking every negative track field for unattached
add_event_negative_is_unattached(w, has_instance, track_id, event, delta_time, add_after) ==
    IF ~has_instance THEN [w |-> w, result |-> BLASTMIDI_INVALIDPARAM]
    ELSE IF event = NULL THEN [w |-> w, result |-> BLASTMIDI_INVALIDPARAM]
    ELSE IF w.heap[event].track >= 0
         THEN [w |-> Touch(w, event), result |-> BLASTMIDI_ALREADYADDED]
    ELSE IF track_id >= w.inst.track_count
         THEN [w |-> Touch(w, event), result |-> BLASTMIDI_INVALIDPARAM]
    ELSE LET w0 == Touch(Touch(w, event), add_after)
             h1 == [w0.heap EXCEPT ![event].track = ToInt16(track_id),
                                   ![event].time = delta_time]
         IN  IF add_after # NULL
             THEN LET old_next == h1[add_after].next
                      h2 == [h1 EXCEPT ![add_after].next = event]
                      h3 == [h2 EXCEPT ![event].previous = add_after]
                      h4 == [h3 EXCEPT ![event].next = old_next]
                  IN  [w |-> [w0 EXCEPT
                                !.heap = h4,
                                !.inst.track_ends =
                                    IF Slot(@, track_id) = add_after
                                    THEN SetSlot(@, track_id, event) ELSE @],
                       result |-> BLASTMIDI_OK]
             ELSE LET old_beginning == Slot(w0.inst.tracks, track_id)
                      h2 == [h1 EXCEPT ![event].previous = NULL,
                                       ![event].next = old_beginning]
                  IN  [w |-> [w0 EXCEPT
                                !.heap = h2,
                                !.inst.tracks = SetSlot(@, track_id, event),
                                !.inst.track_ends =
                                    IF Slot(@, track_id) = NULL
                                    THEN SetSlot(@, track_id, event) ELSE @],
                       result |-> BLASTMIDI_OK]

\* blastmidi_add_event without the test of the track id
add_event_without_track_check(w, has_instance, track_id, event, delta_time, add_after) ==
    IF ~has_instance THEN [w |-> w, result |-> BLASTMIDI_INVALIDPARAM]
    ELSE IF event = NULL THEN [w |-> w, result |-> BLASTMIDI_INVALIDPARAM]
    ELSE IF w.heap[event].track # -1
         THEN [w |-> Touch(w, event), result |-> BLASTMIDI_ALREADYADDED]
    ELSE [w |-> [w EXCEPT !.heap[event].track = ToInt16(track_id),
                          !.heap[event].time = delta_time],
          result |-> BLASTMIDI_OK]

blastmidi_add_event(w, has_instance, track_id, event, delta_time, add_after) ==
    IF ~has_instance THEN [w |-> w, result |-> BLASTMIDI_INVALIDPARAM]
    ELSE IF event = NULL THEN [w |-> w, result |-> BLASTMIDI_INVALIDPARAM]
    ELSE IF w.heap[event].track # -1
         THEN [w |-> Touch(w, event), result |-> BLASTMIDI_ALREADYADDED]
    ELSE IF track_id >= w.inst.track_count
         THEN [w |-> Touch(w, event), result |-> BLASTMIDI_INVALIDPARAM]
    ELSE LET w0 == Touch(Touch(w, event), add_after)
             h1 == [w0.heap EXCEPT ![event].track = ToInt16(track_id),
                                   ![event].time = delta_time]
         IN  IF add_after # NULL
             THEN LET old_next == h1[add_after].next
                      h2 == [h1 EXCEPT ![add_after].next = event]
                      h3 == [h2 EXCEPT ![event].previous = add_after]
                      h4 == [h3 EXCEPT ![event].next = old_next]
                  IN  [w |-> [w0 EXCEPT
                                !.heap = h4,
                                !.inst.track_ends =
                                    IF Slot(@, track_id) = add_after
                                    THEN SetSlot(@, track_id, event) ELSE @],
                       result |-> BLASTMIDI_OK]
             ELSE LET old_beginning == Slot(w0.inst.tracks, track_id)
                      h2 == [h1 EXCEPT ![event].previous = NULL,
                                       ![event].next = old_beginning]
                  IN  [w |-> [w0 EXCEPT
                                !.heap = h2,
                                !.inst.tracks = SetSlot(@, track_id, event),
                                !.inst.track_ends =
                                    IF Slot(@, track_id) = NULL
                                    THEN SetSlot(@, track_id, event) ELSE @],
                       result |-> BLASTMIDI_OK]

\* blastmidi_add_event_to_beginning_of_track attaching to track 0 always
add_to_beginning_of_first_track(w, has_instance, track_id, event, delta_time) ==
    IF ~has_instance THEN [w |-> w, result |-> BLASTMIDI_INVALIDPARAM]
    ELSE IF event = NULL THEN [w |-> w, result |-> BLASTMIDI_INVALIDPARAM]
    ELSE IF w.heap[event].track # -1
         THEN [w |-> Touch(w, event), result |-> BLASTMIDI_ALREADYADDED]
    ELSE IF track_id >= w.inst.track_count
         THEN [w |-> Touch(w, event), result |-> BLASTMIDI_INVALIDPARAM]
    ELSE blastmidi_add_event(w, has_instance, 0, event, delta_time, NULL)

blastmidi_add_event_to_beginning_of_track(w, has_instance, track_id, event, delta_time) ==
    IF ~has_instance THEN [w |-> w, result |-> BLASTMIDI_INVALIDPARAM]
    ELSE IF event = NULL THEN [w |-> w, result |-> BLASTMIDI_INVALIDPARAM]
    ELSE IF w.heap[event].track # -1
         THEN [w |-> Touch(w, event), result |-> BLASTMIDI_ALREADYADDED]
    ELSE IF track_id >= w.inst.track_count
         THEN [w |-> Touch(w, event), result |-> BLASTMIDI_INVALIDPARAM]
    ELSE blastmidi_add_event(w, has_instance, track_id, event, delta_time, NULL)

\* blastmidi_add_event_to_end_of_track storing the delta time before its checks
add_to_end_storing_time_first(w, has_instance, track_id, event, delta_time) ==
    IF ~has_instance THEN [w |-> w, result |-> BLASTMIDI_INVALIDPARAM]
    ELSE IF event = NULL THEN [w |-> w, result |-> BLASTMIDI_INVALIDPARAM]
    ELSE LET w1 == [w EXCEPT !.heap[event].time = delta_time]
         IN  IF w1.heap[event].track # -1
             THEN [w |-> Touch(w1, event), result |-> BLASTMIDI_ALREADYADDED]
             ELSE IF track_id >= w1.inst.track_count
                  THEN [w |-> Touch(w1, event), result |-> BLASTMIDI_INVALIDPARAM]
             ELSE blastmidi_add_event(w1, has_instance, track_id, event, delta_time,
                                      Slot(w1.inst.track_ends, track_id))

blastmidi_add_event_to_end_of_track(w, has_instance, track_id, event, delta_time) ==
    IF ~has_instance THEN [w |-> w, result |-> BLASTMIDI_INVALIDPARAM]
    ELSE IF event = NULL THEN [w |-> w, result |-> BLASTMIDI_INVALIDPARAM]
    ELSE IF w.heap[event].track # -1
         THEN [w |-> Touch(w, event), result |-> BLASTMIDI_ALREADYADDED]
    ELSE IF track_id >= w.inst.track_count
         THEN [w |-> Touch(w, event), result |-> BLASTMIDI_INVALIDPARAM]
    ELSE blastmidi_add_event(w, has_instance, track_id, event, delta_time,
                             Slot(w.inst.track_ends, track_id))

\* has_out: the caller passed a place for the result; out is what it holds
blastmidi_get_first_event_on_track(w, has_instance, track_id, has_out, out) ==
    IF ~has_instance THEN [w |-> w, result |-> BLASTMIDI_INVALIDPARAM, out |-> out]
    ELSE IF ~has_out THEN [w |-> w, result |-> BLASTMIDI_INVALIDPARAM, out |-> out]
    ELSE IF track_id >= w.inst.track_count
         THEN [w |-> w, result |-> BLASTMIDI_INVALIDPARAM, out |-> out]
    ELSE [w |-> w, result |-> BLASTMIDI_OK, out |-> Slot(w.inst.tracks, track_id)]

blastmidi_get_last_event_on_track(w, has_instance, track_id, has_out, out) ==
    IF ~has_instance THEN [w |-> w, result |-> BLASTMIDI_INVALIDPARAM, out |-> out]
    ELSE IF ~has_out THEN [w |-> w, result |-> BLASTMIDI_INVALIDPARAM, out |-> out]
    ELSE IF track_id >= w.inst.track_count
         THEN [w |-> w, result |-> BLASTMIDI_INVALIDPARAM, out |-> out]
    ELSE [w |-> w, result |-> BLASTMIDI_OK, out |-> Slot(w.inst.track_ends, track_id)]

blastmidi_get_next_event_on_track(w, has_instance, has_out, out) ==
    IF ~has_instance THEN [w |-> w, result |-> BLASTMIDI_INVALIDPARAM, out |-> out]
    ELSE IF ~has_out THEN [w |-> w, result |-> BLASTMIDI_INVALIDPARAM, out |-> out]
    ELSE IF out = NULL THEN [w |-> w, result |-> BLASTMIDI_INVALIDPARAM, out |-> out]
    ELSE [w |-> Touch(w, out), result |-> BLASTMIDI_OK, out |-> w.heap[out].next]

blastmidi_get_previous_event_on_track(w, has_instance, has_out, out) ==
    IF ~has_instance THEN [w |-> w, result |-> BLASTMIDI_INVALIDPARAM, out |-> out]
    ELSE IF ~has_out THEN [w |-> w, result |-> BLASTMIDI_INVALIDPARAM, out |-> out]
    ELSE IF out = NULL THEN [w |-> w, result |-> BLASTMIDI_INVALIDPARAM, out |-> out]
    ELSE [w |-> Touch(w, out), result |-> BLASTMIDI_OK, out |-> w.heap[out].previous]

\* blastmidi_remove_event_from_track comparing the track before it tests for -1
remove_comparing_track_first(w, has_instance, track_id, event) ==
    IF ~has_instance THEN [w |-> w, result |-> BLASTMIDI_INVALIDPARAM]
    ELSE IF track_id >= w.inst.track_count
         THEN [w |-> w, result |-> BLASTMIDI_INVALIDPARAM]
    ELSE IF event = NULL THEN [w |-> w, result |-> BLASTMIDI_INVALIDPARAM]
    ELSE IF w.heap[event].track # track_id
         THEN [w |-> Touch(w, event), result |-> BLASTMIDI_NOTPARTOFTRACK]
    ELSE IF w.heap[event].track = -1
         THEN [w |-> Touch(w, event), result |-> BLASTMIDI_NOTADDED]
    ELSE LET w0 == Touch(w, event)
             previous == w0.heap[event].previous
             next == w0.heap[event].next
             w1 == IF previous # NULL
                   THEN [Touch(w0, previous) EXCEPT !.heap[previous].next = next]
                   ELSE w0
             w2 == IF next # NULL
                   THEN [Touch(w1, next) EXCEPT !.heap[next].previous = previous]
                   ELSE w1
             w3 == IF Slot(w2.inst.tracks, track_id) = event
                   THEN [w2 EXCEPT !.inst.tracks = SetSlot(@, track_id, next)]
                   ELSE w2
             w4 == IF Slot(w3.inst.track_ends, track_id) = event
                   THEN [w3 EXCEPT !.inst.track_ends = SetSlot(@, track_id, previous)]
                   ELSE w3
         IN  [w |-> blastmidi_event_free(w4, event), result |-> BLASTMIDI_OK]

blastmidi_remove_event_from_track(w, has_instance, track_id, event) ==
    IF ~has_instance THEN [w |-> w, result |-> BLASTMIDI_INVALIDPARAM]
    ELSE IF track_id >= w.inst.track_count
         THEN [w |-> w, result |-> BLASTMIDI_INVALIDPARAM]
    ELSE IF event = NULL THEN [w |-> w, result |-> BLASTMIDI_INVALIDPARAM]
    ELSE IF w.heap[event].track = -1
         THEN [w |-> Touch(w, event), result |-> BLASTMIDI_NOTADDED]
    ELSE IF w.heap[event].track # track_id
         THEN [w |-> Touch(w, event), result |-> BLASTMIDI_NOTPARTOFTRACK]
    ELSE LET w0 == Touch(w, event)
             previous == w0.heap[event].previous
             next == w0.heap[event].next
             w1 == IF previous # NULL
                   THEN [Touch(w0, previous) EXCEPT !.heap[previous].next = next]
                   ELSE w0
             w2 == IF next # NULL
                   THEN [Touch(w1, next) EXCEPT !.heap[next].previous = previous]
                   ELSE w1
             w3 == IF Slot(w2.inst.tracks, track_id) = event
                   THEN [w2 EXCEPT !.inst.tracks = SetSlot(@, track_id, next)]
                   ELSE w2
             w4 == IF Slot(w3.inst.track_ends, track_id) = event
                   THEN [w3 EXCEPT !.inst.track_ends = SetSlot(@, track_id, previous)]
                   ELSE w3
         IN  [w |-> blastmidi_event_free(w4, event), result |-> BLASTMIDI_OK]

----------------------------------------------------------------------------
(* Low-level input: read_bytes, skip_ahead, skip_backwards and the integer *)
(* readers.  Each returns the world after the call, the result code and    *)
(* what was read.                                                          *)

read_bytes(w, size) ==
    LET Answered(c) ==
            IF c.ok
            THEN [w |-> [w EXCEPT !.ad = c.ad, !.inst.cursor = @ + size],
                  result |-> BLASTMIDI_OK, bytes |-> c.bytes]
            ELSE [w |-> w, result |-> BLASTMIDI_UNEXPECTEDEND, bytes |-> <<>>]
    IN  Answered(CallbackRead(w.ad, size))

\* skip_ahead that seeks by size from where the callback is, and leaves the
\* cursor where it was
skip_ahead_keeping_cursor(w, size) ==
    LET Answered(c) ==
            IF c.ok
            THEN [w |-> [w EXCEPT !.ad = c.ad], result |-> BLASTMIDI_OK]
            ELSE [w |-> w, result |-> BLASTMIDI_UNEXPECTEDEND]
    IN  Answered(CallbackSeek(w.ad, w.ad.pos + size))

skip_ahead(w, size) ==
    LET Answered(c) ==
            IF c.ok
            THEN [w |-> [w EXCEPT !.ad = c.ad, !.inst.cursor = @ + size],
                  result |-> BLASTMIDI_OK]
            ELSE [w |-> w, result |-> BLASTMIDI_UNEXPECTEDEND]
    IN  Answered(CallbackSeek(w.ad, w.inst.cursor + size))

\* skip_backwards that goes back three times as far as it is asked to
skip_backwards_too_far(w, size) ==
    LET Answered(c) ==
            IF c.ok
            THEN [w |-> [w EXCEPT !.ad = c.ad, !.inst.cursor = @ - 3 * size],
                  result |-> BLASTMIDI_OK]
            ELSE [w |-> w, result |-> BLASTMIDI_UNEXPECTEDEND]
    IN  Answered(CallbackSeek(w.ad, w.inst.cursor - 3 * size))

skip_backwards(w, size) ==
    LET Answered(c) ==
            IF c.ok
            THEN [w |-> [w EXCEPT !.ad = c.ad, !.inst.cursor = @ - size],
                  result |-> BLASTMIDI_OK]
            ELSE [w |-> w, result |-> BLASTMIDI_UNEXPECTEDEND]
    IN  Answered(CallbackSeek(w.ad, w.inst.cursor - size))

read_byte(w) ==
    LET Got(r) ==
            [w |-> r.w, result |-> r.result,
             value |-> IF r.result = BLASTMIDI_OK THEN r.bytes[1] ELSE 0]
    IN  Got(read_bytes(w, 1))

\* read_16_bit leaving the number in the byte order of the host
read_16_bit_host_order(w) ==
    LET Got(r) ==
            IF r.result = BLASTMIDI_OK
            THEN [w |-> r.w, result |-> BLASTMIDI_OK, value |-> FromMem(r.bytes, host)]
            ELSE [w |-> r.w, result |-> BLASTMIDI_UNEXPECTEDEND, value |-> 0]
    IN  Got(read_bytes(w, 2))

read_16_bit(w) ==
    LET Got(r) ==
            IF r.result = BLASTMIDI_OK
            THEN [w |-> r.w, result |-> BLASTMIDI_OK,
                  value |-> convert_endian_16(FromMem(r.bytes, host),
                                              r.w.inst.endian_flag)]
            ELSE [w |-> r.w, result |-> BLASTMIDI_UNEXPECTEDEND, value |-> 0]
    IN  Got(read_bytes(w, 2))

read_32_bit(w) ==
    LET Got(r) ==
            IF r.result = BLASTMIDI_OK
            THEN [w |-> r.w, result |-> BLASTMIDI_OK,
                  value |-> convert_endian_32(FromMem32(r.bytes, host),
                                              r.w.inst.endian_flag)]
            ELSE [w |-> r.w, result |-> BLASTMIDI_UNEXPECTEDEND, value |-> U32(0)]
    IN  Got(read_bytes(w, 4))

\* three bytes are read into a zeroed 32 bit buffer
read_24_bit(w) ==
    LET Got(r) ==
            IF r.result = BLASTMIDI_OK
            THEN [w |-> r.w, result |-> BLASTMIDI_OK,
                  value |-> extract_bits_32(
                                convert_endian_32(FromMem32(r.bytes \o <<0>>, host),
                                                  r.w.inst.endian_flag), 1, 24)]
            ELSE [w |-> r.w, result |-> BLASTMIDI_UNEXPECTEDEND, value |-> U32(0)]
    IN  Got(read_bytes(w, 3))

\* the loop of read_variable_number without the mask on the byte read
RECURSIVE variable_number_loop_unmasked(_, _, _)
variable_number_loop_unmasked(w, i, buffer) ==
    LET Shifted(r, keep_going, next_buffer) ==
            IF r.result # BLASTMIDI_OK
            THEN [w |-> r.w, result |-> r.result, value |-> buffer]
            ELSE IF keep_going = 1 /\ i = 3
            THEN [w |-> r.w, result |-> BLASTMIDI_INVALIDCHUNK, value |-> buffer]
            ELSE IF keep_going = 0
            THEN [w |-> r.w, result |-> BLASTMIDI_OK, value |-> next_buffer]
            ELSE variable_number_loop_unmasked(r.w, i + 1, next_buffer)
        Got(r) ==
            Shifted(r, extract_bits_8(r.value, 1, 1),
                    BitOr(buffer * 128, r.value))
    IN  IF i >= 4 THEN [w |-> w, result |-> BLASTMIDI_OK, value |-> buffer]
        ELSE Got(read_byte(w))

\* the loop of read_variable_number without the test of the fourth byte
RECURSIVE variable_number_loop_unchecked(_, _, _)
variable_number_loop_unchecked(w, i, buffer) ==
    LET Shifted(r, keep_going, next_buffer) ==
            IF r.result # BLASTMIDI_OK
            THEN [w |-> r.w, result |-> r.result, value |-> buffer]
            ELSE IF keep_going = 0
            THEN [w |-> r.w, result |-> BLASTMIDI_OK, value |-> next_buffer]
            ELSE variable_number_loop_unchecked(r.w, i + 1, next_buffer)
        Got(r) ==
            Shifted(r, extract_bits_8(r.value, 1, 1),
                    BitOr(buffer * 128, r.value % 128))
    IN  IF i >= 4 THEN [w |-> w, result |-> BLASTMIDI_OK, value |-> buffer]
        ELSE Got(read_byte(w))

\* the for loop of read_variable_number from index i on; at most four groups
\* of seven bits are shifted in, so the 32 bit buffer never overflows
RECURSIVE read_variable_number_loop(_, _, _)
read_variable_number_loop(w, i, buffer) ==
    LET Shifted(r, keep_going, next_buffer) ==
            IF r.result # BLASTMIDI_OK
            THEN [w |-> r.w, result |-> r.result, value |-> buffer]
            ELSE IF keep_going = 1 /\ i = 3
            THEN [w |-> r.w, result |-> BLASTMIDI_INVALIDCHUNK, value |-> buffer]
            ELSE IF keep_going = 0
            THEN [w |-> r.w, result |-> BLASTMIDI_OK, value |-> next_buffer]
            ELSE read_variable_number_loop(r.w, i + 1, next_buffer)
        Got(r) ==
            Shifted(r, extract_bits_8(r.value, 1, 1),
                    BitOr(buffer * 128, r.value % 128))
    IN  IF i >= 4 THEN [w |-> w, result |-> BLASTMIDI_OK, value |-> buffer]
        ELSE Got(read_byte(w))

read_variable_number(w) == read_variable_number_loop(w, 0, 0)

----------------------------------------------------------------------------
(* Event decoding.  A result carries event (NULL when none was made).      *)

Failed(w, result) ==
    [w |-> w, result |-> result, event |-> NULL, end_of_track |-> 0]

\* the payload of a freshly allocated event is filled from the stream
FillData(r, e, size) ==
    LET Got(rb) ==
            IF rb.result # BLASTMIDI_OK
            THEN Failed(blastmidi_event_free(rb.w, e), rb.result)
            ELSE [w |-> [rb.w EXCEPT !.heap[e].data = rb.bytes],
                  result |-> BLASTMIDI_OK, event |-> e, end_of_track |-> 0]
    IN  Got(read_bytes(r.w, size))

Made(r) ==
    IF r.result # BLASTMIDI_OK THEN Failed(r.w, r.result)
    ELSE [w |-> r.w, result |-> BLASTMIDI_OK, event |-> r.event, end_of_track |-> 0]

RECURSIVE read_n_bytes(_, _, _)
read_n_bytes(w, n, got) ==
    LET Got(r) ==
            IF r.result # BLASTMIDI_OK
            THEN [w |-> r.w, result |-> r.result, bytes |-> got]
            ELSE read_n_bytes(r.w, n - 1, Append(got, r.value))
    IN  IF n = 0 THEN [w |-> w, result |-> BLASTMIDI_OK, bytes |-> got]
        ELSE Got(read_byte(w))

read_meta_event(w, addr, blk) ==
    LET Numbered(n) ==
            IF n.result # BLASTMIDI_OK THEN Failed(n.w, n.result)
            ELSE Made(blastmidi_event_create_meta_sequence_number_event(
                          n.w, n.value, addr, blk))
        Created(c, event_size) ==
            IF c.result # BLASTMIDI_OK THEN Failed(c.w, c.result)
            ELSE FillData(c, c.event, event_size)
        Prefixed(c) ==
            IF c.result # BLASTMIDI_OK THEN Failed(c.w, c.result)
            ELSE Made(blastmidi_event_create_meta_midi_channel_prefix_event(
                          c.w, c.value, addr, blk))
        Paced(n) ==
            IF n.result # BLASTMIDI_OK THEN Failed(n.w, n.result)
            ELSE Made(blastmidi_event_create_meta_tempo_event(n.w, n.value, addr, blk))
        Skipped(k) == Failed(k.w, k.result)
        Metered(b) ==
            IF b.result # BLASTMIDI_OK THEN Failed(b.w, b.result)
            ELSE Made(blastmidi_event_create_meta_time_signature_event(
                          b.w, b.bytes[1], b.bytes[2], b.bytes[3], b.bytes[4],
                          addr, blk))
        Keyed(b) ==
            IF b.result # BLASTMIDI_OK THEN Failed(b.w, b.result)
            ELSE Made(blastmidi_event_create_meta_key_signature_event(
                          b.w, ToInt8(b.bytes[1]), b.bytes[2], addr, blk))
        Sized(type, s) ==
            IF s.result # BLASTMIDI_OK THEN Failed(s.w, s.result)
            ELSE IF type = BLASTMIDI_META_SEQUENCE_NUMBER
            THEN Numbered(read_16_bit(s.w))
            ELSE IF type \in MetaDataSubtypes
            THEN Created(blastmidi_event_create_meta_data_event(
                             s.w, type, NullData, s.value, addr, blk), s.value)
            ELSE IF type = BLASTMIDI_META_MIDI_CHANNEL_PREFIX
            THEN Prefixed(read_byte(s.w))
            ELSE IF type = BLASTMIDI_META_END_OF_TRACK
            THEN [w |-> s.w, result |-> BLASTMIDI_OK, event |-> NULL,
                  end_of_track |-> 1]
            ELSE IF type = BLASTMIDI_META_SET_TEMPO
            THEN Paced(read_24_bit(s.w))
            ELSE IF type = BLASTMIDI_META_SMPTE_OFFSET
            THEN Skipped(skip_ahead(s.w, 5))
            ELSE IF type = BLASTMIDI_META_TIME_SIGNATURE
            THEN Metered(read_n_bytes(s.w, 4, <<>>))
            ELSE IF type = BLASTMIDI_META_KEY_SIGNATURE
            THEN Keyed(read_n_bytes(s.w, 2, <<>>))
            ELSE Skipped(skip_ahead(s.w, s.value))
        Typed(t) ==
            IF t.result # BLASTMIDI_OK THEN Failed(t.w, t.result)
            ELSE Sized(t.value, read_variable_number(t.w))
    IN  Typed(read_byte(w))

\* read_sysex_event that takes every fragment for the last one
read_sysex_event_always_closed(w, addr, blk) ==
    LET Closed(c, f) ==
            IF f.result # BLASTMIDI_OK
            THEN Failed(blastmidi_event_free(f.w, c.event), f.result)
            ELSE [w |-> [f.w EXCEPT !.inst.sysex_continuation = 0],
                  result |-> BLASTMIDI_OK, event |-> c.event, end_of_track |-> 0]
        Filled(c, d) ==
            IF d.result # BLASTMIDI_OK THEN d ELSE Closed(c, read_byte(d.w))
        Created(c, event_size) ==
            IF c.result # BLASTMIDI_OK THEN Failed(c.w, c.result)
            ELSE Filled(c, IF event_size > 1 THEN FillData(c, c.event, event_size - 1)
                           ELSE Made(c))
        Sized(s) ==
            IF s.result # BLASTMIDI_OK THEN Failed(s.w, s.result)
            ELSE IF s.value = 0 THEN Failed(s.w, BLASTMIDI_OK)
            ELSE Created(blastmidi_event_create_sysex_event(
                             s.w, NullData, s.value - 1, 1, addr, blk), s.value)
    IN  Sized(read_variable_number(w))

read_sysex_event(w, addr, blk) ==
    LET Closed(c, f) ==
            IF f.result # BLASTMIDI_OK
            THEN Failed(blastmidi_event_free(f.w, c.event), f.result)
            ELSE IF f.value = 247
            THEN [w |-> [f.w EXCEPT !.inst.sysex_continuation = 0],
                  result |-> BLASTMIDI_OK, event |-> c.event, end_of_track |-> 0]
            ELSE [w |-> [f.w EXCEPT !.inst.sysex_continuation = 1,
                                    !.heap[c.event].end_of_sysex = 0],
                  result |-> BLASTMIDI_OK, event |-> c.event, end_of_track |-> 0]
        Filled(c, d) ==
            IF d.result # BLASTMIDI_OK THEN d ELSE Closed(c, read_byte(d.w))
        Created(c, event_size) ==
            IF c.result # BLASTMIDI_OK THEN Failed(c.w, c.result)
            ELSE Filled(c, IF event_size > 1 THEN FillData(c, c.event, event_size - 1)
                           ELSE Made(c))
        Sized(s) ==
            IF s.result # BLASTMIDI_OK THEN Failed(s.w, s.result)
            ELSE IF s.value = 0 THEN Failed(s.w, BLASTMIDI_OK)
            ELSE Created(blastmidi_event_create_sysex_event(
                             s.w, NullData, s.value - 1, 1, addr, blk), s.value)
    IN  Sized(read_variable_number(w))

read_authorization_sysex_event(w, addr, blk) ==
    LET Created(c, event_size) ==
            IF c.result # BLASTMIDI_OK THEN Failed(c.w, c.result)
            ELSE FillData(c, c.event, event_size)
        Sized(s) ==
            IF s.result # BLASTMIDI_OK THEN Failed(s.w, s.result)
            ELSE IF s.value = 0 THEN Failed(s.w, BLASTMIDI_OK)
            ELSE Created(blastmidi_event_create_sysex_event(
                             s.w, NullData, s.value, 1, addr, blk), s.value)
    IN  Sized(read_variable_number(w))

\* the channel event case without the step back for running status
channel_event_without_step_back(w, first_byte, addr, blk) ==
    LET Two(b, channel, midi_event_type) ==
            IF b.result # BLASTMIDI_OK THEN Failed(b.w, b.result)
            ELSE Made(blastmidi_event_create_channel_event(
                          b.w, channel, midi_event_type, b.bytes[1], b.bytes[2],
                          addr, blk))
        One(b, channel, midi_event_type) ==
            IF b.result # BLASTMIDI_OK THEN Failed(b.w, b.result)
            ELSE Made(blastmidi_event_create_channel_event(
                          b.w, channel, midi_event_type, b.value, 0, addr, blk))
        Kind(w2, channel, midi_event_type) ==
            IF midi_event_type \in {BLASTMIDI_CHANNEL_NOTE_OFF, BLASTMIDI_CHANNEL_NOTE_ON,
                                    BLASTMIDI_CHANNEL_NOTE_AFTERTOUCH,
                                    BLASTMIDI_CHANNEL_CONTROLLER,
                                    BLASTMIDI_CHANNEL_PITCH_BEND}
            THEN Two(read_n_bytes(w2, 2, <<>>), channel, midi_event_type)
            ELSE IF midi_event_type \in {BLASTMIDI_CHANNEL_PROGRAM_CHANGE,
                                         BLASTMIDI_CHANNEL_CHANNEL_AFTERTOUCH}
            THEN One(read_byte(w2), channel, midi_event_type)
            ELSE Failed(w2, BLASTMIDI_INVALIDCHUNK)
        Status(w1, event_type) ==
            Kind([w1 EXCEPT !.inst.running_status = event_type],
                 extract_bits_8(event_type, 5, 8), extract_bits_8(event_type, 1, 4))
        Running(new_status_bit) ==
            IF new_status_bit = 0
            THEN Status(w, w.inst.running_status)
            ELSE Status(w, first_byte)
    IN  Running(extract_bits_8(first_byte, 1, 1))

\* the default case of the switch in read_track_events: a channel event
read_channel_event(w, first_byte, addr, blk) ==
    LET Two(b, channel, midi_event_type) ==
            IF b.result # BLASTMIDI_OK THEN Failed(b.w, b.result)
            ELSE Made(blastmidi_event_create_channel_event(
                          b.w, channel, midi_event_type, b.bytes[1], b.bytes[2],
                          addr, blk))
        One(b, channel, midi_event_type) ==
            IF b.result # BLASTMIDI_OK THEN Failed(b.w, b.result)
            ELSE Made(blastmidi_event_create_channel_event(
                          b.w, channel, midi_event_type, b.value, 0, addr, blk))
        Kind(w2, channel, midi_event_type) ==
            IF midi_event_type \in {BLASTMIDI_CHANNEL_NOTE_OFF, BLASTMIDI_CHANNEL_NOTE_ON,
                                    BLASTMIDI_CHANNEL_NOTE_AFTERTOUCH,
                                    BLASTMIDI_CHANNEL_CONTROLLER,
                                    BLASTMIDI_CHANNEL_PITCH_BEND}
            THEN Two(read_n_bytes(w2, 2, <<>>), channel, midi_event_type)
            ELSE IF midi_event_type \in {BLASTMIDI_CHANNEL_PROGRAM_CHANGE,
                                         BLASTMIDI_CHANNEL_CHANNEL_AFTERTOUCH}
            THEN One(read_byte(w2), channel, midi_event_type)
            ELSE Failed(w2, BLASTMIDI_INVALIDCHUNK)
        Status(w1, event_type) ==
            Kind([w1 EXCEPT !.inst.running_status = event_type],
                 extract_bits_8(event_type, 5, 8), extract_bits_8(event_type, 1, 4))
        \* the result of skip_backwards is not looked at
        Running(new_status_bit) ==
            IF new_status_bit = 0
            THEN Status(skip_backwards(w, 1).w, w.inst.running_status)
            ELSE Status(w, first_byte)
    IN  Running(extract_bits_8(first_byte, 1, 1))

\* read_track_events where a channel or meta event ends a pending sysex message
read_track_events_forgetting_sysex(w, track_id, addr, blk) ==
    LET Added(e, a) ==
            IF a.result # BLASTMIDI_OK
            THEN Failed(blastmidi_event_free(a.w, e.event), a.result)
            ELSE [w |-> a.w, result |-> BLASTMIDI_OK, event |-> e.event,
                  end_of_track |-> e.end_of_track]
        Decoded(e, delta_time) ==
            IF e.result # BLASTMIDI_OK THEN e
            ELSE IF e.event = NULL THEN e
            ELSE Added(e, blastmidi_add_event_to_end_of_track(
                              e.w, TRUE, track_id, e.event, delta_time))
        Forgot(w1) == [w1 EXCEPT !.inst.sysex_continuation = 0]
        Typed(t, delta_time) ==
            IF t.result # BLASTMIDI_OK THEN Failed(t.w, t.result)
            ELSE Decoded(IF t.value = 255 THEN read_meta_event(Forgot(t.w), addr, blk)
                         ELSE IF t.value = 240 THEN read_sysex_event(t.w, addr, blk)
                         ELSE IF t.value = 247
                         THEN IF t.w.inst.sysex_continuation = 1
                              THEN read_sysex_event(t.w, addr, blk)
                              ELSE read_authorization_sysex_event(t.w, addr, blk)
                         ELSE read_channel_event(Forgot(t.w), t.value, addr, blk),
                         delta_time)
        Timed(d) ==
            IF d.result # BLASTMIDI_OK THEN Failed(d.w, d.result)
            ELSE Typed(read_byte(d.w), d.value)
    IN  Timed(read_variable_number(w))

\* read_track_events where a meta or sysex event ends the running status
read_track_events_meta_ends_status(w, track_id, addr, blk) ==
    LET Added(e, a) ==
            IF a.result # BLASTMIDI_OK
            THEN Failed(blastmidi_event_free(a.w, e.event), a.result)
            ELSE [w |-> a.w, result |-> BLASTMIDI_OK, event |-> e.event,
                  end_of_track |-> e.end_of_track]
        Decoded(e, delta_time) ==
            IF e.result # BLASTMIDI_OK THEN e
            ELSE IF e.event = NULL THEN e
            ELSE Added(e, blastmidi_add_event_to_end_of_track(
                              e.w, TRUE, track_id, e.event, delta_time))
        Forgot(w1) == [w1 EXCEPT !.inst.running_status = 0]
        Typed(t, delta_time) ==
            IF t.result # BLASTMIDI_OK THEN Failed(t.w, t.result)
            ELSE Decoded(IF t.value = 255 THEN read_meta_event(Forgot(t.w), addr, blk)
                         ELSE IF t.value = 240 THEN read_sysex_event(Forgot(t.w), addr, blk)
                         ELSE IF t.value = 247
                         THEN IF t.w.inst.sysex_continuation = 1
                              THEN read_sysex_event(t.w, addr, blk)
                              ELSE read_authorization_sysex_event(t.w, addr, blk)
                         ELSE read_channel_event(t.w, t.value, addr, blk),
                         delta_time)
        Timed(d) ==
            IF d.result # BLASTMIDI_OK THEN Failed(d.w, d.result)
            ELSE Typed(read_byte(d.w), d.value)
    IN  Timed(read_variable_number(w))

\* one iteration of the while loop of read_track_events
read_track_events(w, track_id, addr, blk) ==
    LET Added(e, a) ==
            IF a.result # BLASTMIDI_OK
            THEN Failed(blastmidi_event_free(a.w, e.event), a.result)
            ELSE [w |-> a.w, result |-> BLASTMIDI_OK, event |-> e.event,
                  end_of_track |-> e.end_of_track]
        Decoded(e, delta_time) ==
            IF e.result # BLASTMIDI_OK THEN e
            ELSE IF e.event = NULL THEN e
            ELSE Added(e, blastmidi_add_event_to_end_of_track(
                              e.w, TRUE, track_id, e.event, delta_time))
        Typed(t, delta_time) ==
            IF t.result # BLASTMIDI_OK THEN Failed(t.w, t.result)
            ELSE Decoded(IF t.value = 255 THEN read_meta_event(t.w, addr, blk)
                         ELSE IF t.value = 240 THEN read_sysex_event(t.w, addr, blk)
                         ELSE IF t.value = 247
                         THEN IF t.w.inst.sysex_continuation = 1
                              THEN read_sysex_event(t.w, addr, blk)
                              ELSE read_authorization_sysex_event(t.w, addr, blk)
                         ELSE read_channel_event(t.w, t.value, addr, blk),
                         delta_time)
        Timed(d) ==
            IF d.result # BLASTMIDI_OK THEN Failed(d.w, d.result)
            ELSE Typed(read_byte(d.w), d.value)
    IN  Timed(read_variable_number(w))

\* read_track leaving running_status and sysex_continuation as they are
read_track_keeping_status(w) ==
    LET Sized(c) ==
            IF c.result # BLASTMIDI_OK THEN [w |-> c.w, result |-> c.result]
            ELSE IF c.value = U32(0) THEN [w |-> c.w, result |-> BLASTMIDI_INVALIDCHUNK]
            ELSE [w |-> c.w, result |-> BLASTMIDI_OK]
        Named(m) ==
            IF m.result # BLASTMIDI_OK THEN [w |-> m.w, result |-> m.result]
            ELSE IF m.bytes # MTrk THEN [w |-> m.w, result |-> BLASTMIDI_INVALIDCHUNK]
            ELSE Sized(read_32_bit(m.w))
    IN  Named(read_bytes(w, 4))

\* read_track that takes any four bytes for the magic of a track chunk
read_track_any_magic(w) ==
    LET Sized(c) ==
            IF c.result # BLASTMIDI_OK THEN [w |-> c.w, result |-> c.result]
            ELSE IF c.value = U32(0) THEN [w |-> c.w, result |-> BLASTMIDI_INVALIDCHUNK]
            ELSE [w |-> [c.w EXCEPT !.inst.running_status = 0,
                                    !.inst.sysex_continuation = 0],
                  result |-> BLASTMIDI_OK]
        Named(m) ==
            IF m.result # BLASTMIDI_OK THEN [w |-> m.w, result |-> m.result]
            ELSE Sized(read_32_bit(m.w))
    IN  Named(read_bytes(w, 4))

\* read_track that takes a declared length of 1 for too short as well
read_track_rejecting_short(w) ==
    LET Sized(c) ==
            IF c.result # BLASTMIDI_OK THEN [w |-> c.w, result |-> c.result]
            ELSE IF c.value \in {U32(0), U32(1)}
            THEN [w |-> c.w, result |-> BLASTMIDI_INVALIDCHUNK]
            ELSE [w |-> [c.w EXCEPT !.inst.running_status = 0,
                                    !.inst.sysex_continuation = 0],
                  result |-> BLASTMIDI_OK]
        Named(m) ==
            IF m.result # BLASTMIDI_OK THEN [w |-> m.w, result |-> m.result]
            ELSE IF m.bytes # MTrk THEN [w |-> m.w, result |-> BLASTMIDI_INVALIDCHUNK]
            ELSE Sized(read_32_bit(m.w))
    IN  Named(read_bytes(w, 4))

\* read_track up to the call of read_track_events
read_track(w) ==
    LET Sized(c) ==
            IF c.result # BLASTMIDI_OK THEN [w |-> c.w, result |-> c.result]
            ELSE IF c.value = U32(0) THEN [w |-> c.w, result |-> BLASTMIDI_INVALIDCHUNK]
            ELSE [w |-> [c.w EXCEPT !.inst.running_status = 0,
                                    !.inst.sysex_continuation = 0],
                  result |-> BLASTMIDI_OK]
        Named(m) ==
            IF m.result # BLASTMIDI_OK THEN [w |-> m.w, result |-> m.result]
            ELSE IF m.bytes # MTrk THEN [w |-> m.w, result |-> BLASTMIDI_INVALIDCHUNK]
            ELSE Sized(read_32_bit(m.w))
    IN  Named(read_bytes(w, 4))

\* the time division part of read_header without the tests for 0 ticks
time_division_any_ticks(td, time_type, ticks_per_beat, SMPTE_frames, ticks_per_frame) ==
    IF td.result # BLASTMIDI_OK THEN [w |-> td.w, result |-> td.result]
    ELSE IF time_type \notin {0, 1} THEN [w |-> td.w, result |-> BLASTMIDI_INVALID]
    ELSE IF time_type = 0
    THEN [w |-> [td.w EXCEPT !.inst.ticks_per_beat = ticks_per_beat,
                             !.inst.time_type = time_type],
          result |-> BLASTMIDI_OK]
    ELSE IF SMPTE_frames \notin {24, 25, 29, 30}
    THEN [w |-> td.w, result |-> BLASTMIDI_INVALID]
    ELSE [w |-> [td.w EXCEPT !.inst.SMPTE_frames = SMPTE_frames % 256,
                             !.inst.ticks_per_frame = ticks_per_frame,
                             !.inst.time_type = time_type],
          result |-> BLASTMIDI_OK]

\* the time division part of read_header: td is the 16 bit number as read
read_time_division(td, time_type, ticks_per_beat, SMPTE_frames, ticks_per_frame) ==
    IF td.result # BLASTMIDI_OK THEN [w |-> td.w, result |-> td.result]
    ELSE IF time_type \notin {0, 1} THEN [w |-> td.w, result |-> BLASTMIDI_INVALID]
    ELSE IF time_type = 0
    THEN IF ticks_per_beat = 0 THEN [w |-> td.w, result |-> BLASTMIDI_INVALID]
         ELSE [w |-> [td.w EXCEPT !.inst.ticks_per_beat = ticks_per_beat,
                                  !.inst.time_type = time_type],
               result |-> BLASTMIDI_OK]
    ELSE IF SMPTE_frames \notin {24, 25, 29, 30}
    THEN [w |-> td.w, result |-> BLASTMIDI_INVALID]
    ELSE IF ticks_per_frame = 0 THEN [w |-> td.w, result |-> BLASTMIDI_INVALID]
    ELSE [w |-> [td.w EXCEPT !.inst.SMPTE_frames = SMPTE_frames % 256,
                             !.inst.ticks_per_frame = ticks_per_frame,
                             !.inst.time_type = time_type],
          result |-> BLASTMIDI_OK]

read_header(w) ==
    LET Divided(td) ==
            read_time_division(
                td, extract_bits_16(td.value, 1, 1), extract_bits_16(td.value, 2, 16),
                ToInt8(Abs(ToInt8(extract_bits_16(td.value, 1, 8)))),
                extract_bits_16(td.value, 9, 16) % 256)
        Counted(tr) ==
            IF tr.result # BLASTMIDI_OK THEN [w |-> tr.w, result |-> tr.result]
            ELSE IF tr.value = 0 THEN [w |-> tr.w, result |-> BLASTMIDI_INVALID]
            ELSE Divided(read_16_bit([tr.w EXCEPT !.inst.track_count = tr.value]))
        Formatted(ft) ==
            IF ft.result # BLASTMIDI_OK THEN [w |-> ft.w, result |-> ft.result]
            ELSE IF ft.value \notin {0, 1, 2}
            THEN [w |-> ft.w, result |-> BLASTMIDI_INVALID]
            ELSE Counted(read_16_bit([ft.w EXCEPT !.inst.file_type = ft.value % 256]))
        Sized(hs) ==
            IF hs.result # BLASTMIDI_OK THEN [w |-> hs.w, result |-> hs.result]
            ELSE IF hs.value # U32(6) THEN [w |-> hs.w, result |-> BLASTMIDI_INVALID]
            ELSE Formatted(read_16_bit(hs.w))
        Named(m) ==
            IF m.result # BLASTMIDI_OK THEN [w |-> m.w, result |-> m.result]
            ELSE IF m.bytes # MThd THEN [w |-> m.w, result |-> BLASTMIDI_INVALID]
            ELSE Sized(read_32_bit(m.w))
    IN  Named(read_bytes(w, 4))

----------------------------------------------------------------------------
(* The API calls as actions.  call is the call made last: which function,  *)
(* what it returned, whether an allocation of more than 0 bytes failed in  *)
(* it, and for blastmidi_read the file behind the callback.                *)

Call(op, result, oom, file) ==
    [op |-> op, result |-> result, oom |-> oom, file |-> file]

PENDING == 0 - 1   \* blastmidi_read has not returned yet

\* the world w becomes the state; an action that would lose more data blocks
\* than the model counts is not taken
Commit(w) ==
    /\ w.leaked <= MaxLeaked
    /\ instance' = w.inst
    /\ heap' = w.heap
    /\ leaked' = w.leaked
    /\ ub' = w.ub

\* the instance has allocator functions to call, and nothing undefined has
\* happened: after undefined behaviour the run has no defined continuation
Usable == instance.malloc_function # "NULL" /\ ~ub

Idle == pc = "idle" /\ Usable

\* blastmidi_initialize without the test of its two function pointers
initialize_taking_either(user_malloc, user_free) ==
    LET zeroed == [ZeroInstance EXCEPT !.endian_flag = IF is_little_endian THEN 1 ELSE 2]
    IN  IF ~user_malloc /\ ~user_free
        THEN [inst |-> [zeroed EXCEPT !.malloc_function = "malloc",
                                      !.free_function = "free"],
              result |-> BLASTMIDI_OK]
        ELSE [inst |-> [zeroed EXCEPT
                          !.malloc_function = IF user_malloc THEN "user_malloc" ELSE "NULL",
                          !.free_function = IF user_free THEN "user_free" ELSE "NULL"],
              result |-> BLASTMIDI_OK]

\* blastmidi_initialize storing the endian flag after the test of its arguments
initialize_flag_after_test(user_malloc, user_free) ==
    LET zeroed == [ZeroInstance EXCEPT !.endian_flag = IF is_little_endian THEN 1 ELSE 2]
    IN  IF (user_malloc \/ user_free) /\ (~user_malloc \/ ~user_free)
        THEN [inst |-> ZeroInstance, result |-> BLASTMIDI_INVALIDPARAM]
        ELSE IF ~user_malloc /\ ~user_free
        THEN [inst |-> [zeroed EXCEPT !.malloc_function = "malloc",
                                      !.free_function = "free"],
              result |-> BLASTMIDI_OK]
        ELSE [inst |-> [zeroed EXCEPT !.malloc_function = "user_malloc",
                                      !.free_function = "user_free"],
              result |-> BLASTMIDI_OK]

\* user_malloc, user_free: whether the caller passes a function
blastmidi_initialize(user_malloc, user_free) ==
    LET zeroed == [ZeroInstance EXCEPT !.endian_flag = IF is_little_endian THEN 1 ELSE 2]
    IN  IF (user_malloc \/ user_free) /\ (~user_malloc \/ ~user_free)
        THEN [inst |-> zeroed, result |-> BLASTMIDI_INVALIDPARAM]
        ELSE IF ~user_malloc /\ ~user_free
        THEN [inst |-> [zeroed EXCEPT !.malloc_function = "malloc",
                                      !.free_function = "free"],
              result |-> BLASTMIDI_OK]
        ELSE [inst |-> [zeroed EXCEPT !.malloc_function = "user_malloc",
                                      !.free_function = "user_free"],
              result |-> BLASTMIDI_OK]

Init ==
    /\ host \in BOOLEAN
    /\ instance = blastmidi_initialize(FALSE, FALSE).inst
    /\ heap = [a \in Addr |-> BlankEvent]
    /\ adapter = NoAdapter
    /\ leaked = 0
    /\ ub = FALSE
    /\ pc = "idle"
    /\ cur_track = 0
    /\ call = [op |-> "blastmidi_initialize", result |-> BLASTMIDI_OK, oom |-> FALSE,
               file |-> "none", args |-> <<FALSE, FALSE>>]

\* initialising again an instance that holds nothing
Initialize ==
    /\ pc = "idle"
    /\ ~ub
    /\ ~instance.tracks.alloc
    /\ \E user_malloc \in BOOLEAN, user_free \in BOOLEAN :
         LET r == blastmidi_initialize(user_malloc, user_free)
         IN  /\ instance' = r.inst
             /\ call' = [op |-> "blastmidi_initialize", result |-> r.result,
                         oom |-> FALSE, file |-> "none",
                         args |-> <<user_malloc, user_free>>]
    /\ UNCHANGED <<heap, adapter, host, leaked, ub, pc, cur_track>>

blastmidi_set_data_callback(inst, callback) ==
    [inst EXCEPT !.data_callback = callback]

SetDataCallback(callbacks) ==
    /\ Idle
    /\ \E callback \in callbacks :
         instance' = blastmidi_set_data_callback(instance, callback)
    /\ call' = Call("blastmidi_set_data_callback", BLASTMIDI_OK, FALSE, "none")
    /\ UNCHANGED <<heap, adapter, host, leaked, ub, pc, cur_track>>

\* blastmidi_read returns result with the world w
ReadReturns(w, result) ==
    /\ Commit(w)
    /\ adapter' = NoAdapter
    /\ pc' = "idle"
    /\ cur_track' = 0
    /\ call' = Call("blastmidi_read", result, w.oom, w.ad.file)

\* blastmidi_read goes on at position p with loop variable i
ReadGoesOn(w, p, i) ==
    /\ Commit(w)
    /\ adapter' = w.ad
    /\ pc' = p
    /\ cur_track' = i
    /\ call' = Call("blastmidi_read", PENDING, w.oom, w.ad.file)

\* blastmidi_read from its entry to the start of the loop over the tracks;
\* ad is the callback the caller has set, at the start of its data
blastmidi_read_from(ad, got1, got2) ==
    IF ~instance.data_callback
    THEN /\ call' = Call("blastmidi_read", BLASTMIDI_NOCALLBACK, FALSE, "none")
         /\ UNCHANGED <<instance, heap, adapter, leaked, ub, pc, cur_track>>
    ELSE LET Allocated(a) ==
                 IF a.result # BLASTMIDI_OK THEN ReadReturns(reset(a.w), a.result)
                 ELSE ReadGoesOn(a.w, "track", 0)
             Headed(h) ==
                 IF h.result # BLASTMIDI_OK THEN ReadReturns(reset(h.w), h.result)
                 ELSE Allocated(allocate_tracks(h.w, got1, got2))
         IN  Headed(read_header(reset([World EXCEPT !.ad = ad])))

blastmidi_read_begin(file, got1, got2) ==
    blastmidi_read_from([file |-> file, pos |-> 0], got1, got2)

Read(files) ==
    /\ Idle
    /\ \E file \in files, got1 \in BOOLEAN, got2 \in BOOLEAN :
         blastmidi_read_begin(file, got1, got2)
    /\ UNCHANGED host

\* blastmidi_read with a callback that serves one of the buffers
ReadBuffer(buffers) ==
    /\ Idle
    /\ adapter = NoAdapter
    /\ \E bytes \in buffers, got1 \in BOOLEAN, got2 \in BOOLEAN :
         blastmidi_read_from(MemoryAdapter(bytes), got1, got2)
    /\ UNCHANGED host

\* the call read_track ( instance, i ) up to the event loop
ReadTrack ==
    /\ pc = "track"
    /\ ~ub
    /\ LET Begun(r) ==
               IF r.result # BLASTMIDI_OK THEN ReadReturns(reset(r.w), r.result)
               ELSE ReadGoesOn(r.w, "events", cur_track)
       IN  Begun(read_track(World))
    /\ UNCHANGED host

\* blastmidi_read returning the error of a track as it stands, with no reset
read_step_without_reset(r) ==
    IF r.result # BLASTMIDI_OK THEN ReadReturns(r.w, r.result)
    ELSE IF r.end_of_track = 0 THEN ReadGoesOn(r.w, "events", cur_track)
    ELSE IF cur_track + 1 < r.w.inst.track_count
         THEN ReadGoesOn(r.w, "track", cur_track + 1)
    ELSE ReadReturns([r.w EXCEPT !.inst.valid = 1], BLASTMIDI_OK)

\* blastmidi_read with an event loop that goes on after the end-of-track event
read_step_past_end_of_track(r) ==
    IF r.result # BLASTMIDI_OK THEN ReadReturns(reset(r.w), r.result)
    ELSE ReadGoesOn(r.w, "events", cur_track)

\* what blastmidi_read does when one iteration of the event loop gave r
blastmidi_read_step(r) ==
    IF r.result # BLASTMIDI_OK THEN ReadReturns(reset(r.w), r.result)
    ELSE IF r.end_of_track = 0 THEN ReadGoesOn(r.w, "events", cur_track)
    ELSE IF cur_track + 1 < r.w.inst.track_count
         THEN ReadGoesOn(r.w, "track", cur_track + 1)
    ELSE ReadReturns([r.w EXCEPT !.inst.valid = 1], BLASTMIDI_OK)

ReadTrackEvents ==
    /\ pc = "events"
    /\ ~ub
    /\ \E addr \in FreeAddrs(World) \cup {NULL}, blk \in BOOLEAN :
         blastmidi_read_step(read_track_events(World, cur_track, addr, blk))
    /\ UNCHANGED host

\* Pointers a caller can hold: events that are live, and what the document
\* hands out through its head and tail slots
RangeOf(array) == {array.slot[t] : t \in DOMAIN array.slot}

UserPointers ==
    {a \in Addr : heap[a].live}
        \cup RangeOf(instance.tracks) \cup RangeOf(instance.track_ends)

\* the events a caller may name as add_after: those it attached to the track
OnTrack(track_id) ==
    {a \in Addr : heap[a].live /\ heap[a].track = ToInt16(track_id)}

\* the arguments tried with an instance, and one call without an instance
Instances(ids) ==
    {[has_instance |-> TRUE, track_id |-> t] : t \in ids}
        \cup {[has_instance |-> FALSE, track_id |-> 0]}

\* a call that returns at once: the world after it, its record
Returns(w, op, result) ==
    /\ Commit(w)
    /\ call' = Call(op, result, w.oom, "none")
    /\ UNCHANGED <<adapter, host, pc, cur_track>>

Done(op, r) == Returns(r.w, op, r.result)

Deltas == {7}

CreateChannelEvent ==
    /\ Idle
    /\ \E subtype \in {BLASTMIDI_CHANNEL_NOTE_ON, BLASTMIDI_META_CUE_POINT},
          addr \in FreeAddrs(World) \cup {NULL} :
         Done("blastmidi_event_create_channel_event",
              blastmidi_event_create_channel_event(World, 0, subtype, 60, 64, addr, TRUE))

\* the creator releases an event it still owns
EventFree ==
    /\ Idle
    /\ \E event \in Addr :
         /\ heap[event].live
         /\ heap[event].track = -1
         /\ Returns(blastmidi_event_free(World, event), "blastmidi_event_free", BLASTMIDI_OK)

AddEvent(ids) ==
    /\ Idle
    /\ \E i \in Instances(ids), event \in UserPointers \cup {NULL}, delta_time \in Deltas :
         \E add_after \in OnTrack(i.track_id) \cup {NULL} :
            Done("blastmidi_add_event",
                 blastmidi_add_event(World, i.has_instance, i.track_id, event,
                                     delta_time, add_after))

AddEventToBeginning(ids) ==
    /\ Idle
    /\ \E i \in Instances(ids), event \in UserPointers \cup {NULL}, delta_time \in Deltas :
         Done("blastmidi_add_event_to_beginning_of_track",
              blastmidi_add_event_to_beginning_of_track(
                      World, i.has_instance, i.track_id, event, delta_time))

AddEventToEnd(ids) ==
    /\ Idle
    /\ \E i \in Instances(ids), event \in UserPointers \cup {NULL}, delta_time \in Deltas :
         Done("blastmidi_add_event_to_end_of_track",
              blastmidi_add_event_to_end_of_track(
                      World, i.has_instance, i.track_id, event, delta_time))

GetFirst(ids) ==
    /\ Idle
    /\ \E i \in Instances(ids), has_out \in BOOLEAN :
         Done("blastmidi_get_first_event_on_track",
              blastmidi_get_first_event_on_track(World, i.has_instance, i.track_id,
                                                     has_out, NULL))

GetLast(ids) ==
    /\ Idle
    /\ \E i \in Instances(ids), has_out \in BOOLEAN :
         Done("blastmidi_get_last_event_on_track",
              blastmidi_get_last_event_on_track(World, i.has_instance, i.track_id,
                                                    has_out, NULL))

GetNext ==
    /\ Idle
    /\ \E i \in Instances({0}), has_out \in BOOLEAN, event \in UserPointers \cup {NULL} :
         Done("blastmidi_get_next_event_on_track",
              blastmidi_get_next_event_on_track(World, i.has_instance, has_out, event))

GetPrevious ==
    /\ Idle
    /\ \E i \in Instances({0}), has_out \in BOOLEAN, event \in UserPointers \cup {NULL} :
         Done("blastmidi_get_previous_event_on_track",
              blastmidi_get_previous_event_on_track(World, i.has_instance, has_out, event))

RemoveEvent(ids) ==
    /\ Idle
    /\ \E i \in Instances(ids), event \in UserPointers \cup {NULL} :
         Done("blastmidi_remove_event_from_track",
              blastmidi_remove_event_from_track(World, i.has_instance, i.track_id, event))

WhipeTrack(ids) ==
    /\ Idle
    /\ \E track \in ids :
         Returns(blastmidi_whipe_track(World, track), "blastmidi_whipe_track", BLASTMIDI_OK)

\* blastmidi_free releasing the tracks and arrays only
free_keeping_format(w) ==
    [reset(w) EXCEPT !.inst.valid = w.inst.valid,
                     !.inst.file_type = w.inst.file_type,
                     !.inst.ticks_per_beat = w.inst.ticks_per_beat]

blastmidi_free(w) == reset(w)

Free ==
    /\ Idle
    /\ Returns(blastmidi_free(World), "blastmidi_free", BLASTMIDI_OK)

----------------------------------------------------------------------------
(* The specifications *)

\* track ids a caller tries: with files of at most two tracks, 2 is never a track
TrackIds == {0, 1, 2}

\* editing a document: load a file, create events, attach, look, remove, wipe
Next ==
    \/ SetDataCallback({TRUE})
    \/ Read(ListStreams)
    \/ ReadTrack
    \/ ReadTrackEvents
    \/ CreateChannelEvent
    \/ EventFree
    \/ AddEvent(TrackIds)
    \/ AddEventToBeginning(TrackIds)
    \/ AddEventToEnd(TrackIds)
    \/ GetFirst(TrackIds)
    \/ GetLast(TrackIds)
    \/ GetNext
    \/ GetPrevious
    \/ RemoveEvent(TrackIds)
    \/ WhipeTrack(TrackIds)
    \/ Free

Spec == Init /\ [][Next]_vars

\* loading files: every file, with and without a callback, one load after another
NextRead ==
    \/ Initialize
    \/ SetDataCallback(BOOLEAN)
    \/ Read(Streams)
    \/ ReadTrack
    \/ ReadTrackEvents
    \/ Free

SpecRead == Init /\ [][NextRead]_vars

\* a caller that loads its file before it makes any event
ReadFirst(files) ==
    /\ \A a \in Addr : heap[a] = BlankEvent
    /\ Read(files)

\* track ids at the ends of the 16 bit range; MaxTracks itself is never a track
WideIds == {32767, 32768, MaxTracks - 1, MaxTracks}

\* a document with as many tracks as a header can declare
NextWide ==
    \/ SetDataCallback({TRUE})
    \/ ReadFirst(WideStreams)
    \/ ReadTrack
    \/ ReadTrackEvents
    \/ CreateChannelEvent
    \/ AddEvent(WideIds)
    \/ AddEventToBeginning(WideIds)
    \/ AddEventToEnd(WideIds)
    \/ RemoveEvent(WideIds)

SpecWide == Init /\ [][NextWide]_vars

----------------------------------------------------------------------------
(* Properties of loading *)

Returned(op) == pc = "idle" /\ ~ub /\ call.op = op

\* the document as reset leaves it
Cleared ==
    /\ instance.track_count = 0
    /\ instance.tracks = NoArray
    /\ instance.track_ends = NoArray
    /\ instance.valid = 0
    /\ instance.file_type = 0
    /\ instance.time_type = 0
    /\ instance.ticks_per_beat = 0
    /\ instance.SMPTE_frames = 0
    /\ instance.ticks_per_frame = 0
    /\ instance.cursor = 0
    /\ instance.running_status = 0
    /\ instance.sysex_continuation = 0

\* no event is left that a track was being built from
NothingAttached == \A a \in Addr : heap[a].live => heap[a].track = -1

\* C1: when blastmidi_read fails in the header, in the allocation of the track
\* arrays or in a track, after any number of events and tracks were decoded,
\* the document is fully reset afterwards: track_count 0, no head or tail
\* array, valid 0, the format and parse fields zero, and no event of a partly
\* built track is left.
C1_FailedReadResets ==
    (Returned("blastmidi_read") /\ call.result \notin {BLASTMIDI_OK, BLASTMIDI_NOCALLBACK})
        => Cleared /\ NothingAttached

\* a read that failed in the second track, after a whole track and an event
\* of the second were decoded
C1_FailedInSecondTrack ==
    /\ Returned("blastmidi_read")
    /\ call.file = "bad_status"
    /\ call.result = BLASTMIDI_INVALIDCHUNK
    /\ \E a \in Addr : heap[a].data_kind = "freed"
    /\ Cleared

\* C2: blastmidi_read on a document without a data callback returns
\* NOCALLBACK and clears the document, also when an earlier read had
\* succeeded: afterwards there are no tracks and valid is 0.
C2_NoCallbackReadClears ==
    (Returned("blastmidi_read") /\ call.result = BLASTMIDI_NOCALLBACK)
        => instance.track_count = 0 /\ ~instance.tracks.alloc
            /\ ~instance.track_ends.alloc /\ instance.valid = 0

\* the header rules for the time division
TimeDivisionRules ==
    /\ instance.time_type \in {0, 1}
    /\ instance.time_type = 0 => instance.ticks_per_beat > 0
    /\ instance.time_type = 1 =>
           instance.SMPTE_frames \in {24, 25, 29, 30} /\ instance.ticks_per_frame > 0

\* what a valid document holds
ValidDocument ==
    /\ instance.track_count >= 1
    /\ instance.tracks.alloc
    /\ instance.track_ends.alloc
    /\ instance.file_type \in {0, 1, 2}
    /\ TimeDivisionRules

\* C3: in every reachable state valid = 1 implies that the most recent
\* blastmidi_read returned OK with no blastmidi_free after it, and that
\* track_count >= 1, both arrays exist, file_type is 0, 1 or 2 and the time
\* division fields obey the header rules.
C3_ValidMeansLastReadSucceeded ==
    instance.valid = 1 =>
        /\ call.op \notin {"blastmidi_free", "blastmidi_initialize"}
        /\ (pc = "idle" /\ call.op = "blastmidi_read") => call.result = BLASTMIDI_OK
        /\ ValidDocument

\* the events of track t in list order, following next from the head slot
RECURSIVE ListFrom(_, _)
ListFrom(a, n) ==
    IF a = NULL \/ n = 0 THEN <<>> ELSE <<a>> \o ListFrom(heap[a].next, n - 1)

TrackList(t) == ListFrom(Slot(instance.tracks, t), MaxEvents + 1)

Decoded(a) ==
    Expect(heap[a].time, heap[a].type, heap[a].subtype, heap[a].channel,
           heap[a].data, heap[a].end_of_sysex)

Expected(file, i) ==
    IF i \in DOMAIN Files[file].expect THEN Files[file].expect[i] ELSE <<>>

\* track i holds exactly the events of chunk i of the file, in stream order,
\* each live, with track = i and the delta time read before it
TrackHolds(file, i) ==
    LET list == TrackList(i)
    IN  /\ Len(list) = Len(Expected(file, i))
        /\ \A k \in 1..Len(list) :
              /\ heap[list[k]].live
              /\ heap[list[k]].track = i
              /\ Decoded(list[k]) = Expected(file, i)[k]

\* C4: for every well-formed stream of N >= 1 tracks blastmidi_read returns
\* OK, sets valid = 1 and track_count = N, and track i holds exactly the events
\* of chunk i in stream order, each with track = i and its delta time.  (No
\* allocation of more than 0 bytes fails in the reads considered.)
C4_WellFormedFileLoads ==
    (Returned("blastmidi_read") /\ Files[call.file].wellformed /\ ~call.oom)
        => /\ call.result = BLASTMIDI_OK
           /\ instance.valid = 1
           /\ instance.track_count = Files[call.file].ntracks
           /\ \A i \in 0..(Files[call.file].ntracks - 1) : TrackHolds(call.file, i)

----------------------------------------------------------------------------
(* Properties of the track lists *)

AttachOps ==
    {"blastmidi_add_event", "blastmidi_add_event_to_beginning_of_track",
     "blastmidi_add_event_to_end_of_track"}

LookOps ==
    {"blastmidi_get_first_event_on_track", "blastmidi_get_last_event_on_track",
     "blastmidi_get_next_event_on_track", "blastmidi_get_previous_event_on_track"}

RemoveOp == "blastmidi_remove_event_from_track"

\* an attach or a remove has just returned OK
Edited ==
    pc = "idle" /\ ~ub /\ call.op \in AttachOps \cup {RemoveOp}
        /\ call.result = BLASTMIDI_OK

\* the tracks of the document
Tracks == 0..(instance.track_count - 1)

\* attaching and removing only: no wipe, no free
NextEdit ==
    \/ SetDataCallback({TRUE})
    \/ Read(ListStreams)
    \/ ReadTrack
    \/ ReadTrackEvents
    \/ CreateChannelEvent
    \/ AddEvent(TrackIds)
    \/ AddEventToBeginning(TrackIds)
    \/ AddEventToEnd(TrackIds)
    \/ GetNext
    \/ GetPrevious
    \/ RemoveEvent(TrackIds)

SpecEdit == Init /\ [][NextEdit]_vars

\* C5: after any sequence of successful attach calls and remove calls on a
\* track t, tracks[t] is the first and track_ends[t] the last of the events
\* attached to t and not removed, every such event is reached from tracks[t]
\* by next, and both slots are NULL exactly when no event is attached.
C5_HeadAndTailFollowTheList ==
    Edited =>
        \A t \in Tracks :
            LET list == TrackList(t)
                attached == OnTrack(t)
            IN  /\ {list[k] : k \in 1..Len(list)} = attached
                /\ Len(list) = Cardinality(attached)
                /\ (attached = {}) <=> (Slot(instance.tracks, t) = NULL)
                /\ (attached = {}) <=> (Slot(instance.track_ends, t) = NULL)
                /\ attached # {} => Slot(instance.track_ends, t) = list[Len(list)]

\* C6: after any sequence of attach and remove operations on a track, for
\* every attached event e with e.next = n not NULL, n.previous = e (following
\* next from the head and previous from the tail visit the same events in
\* opposite order), also right after an insert at the head of a track that
\* is not empty or between two events.
C6_PreviousMirrorsNext ==
    Edited =>
        \A e \in Addr :
            (heap[e].live /\ heap[e].track # -1 /\ heap[e].next # NULL)
                => heap[heap[e].next].previous = e

\* the three ways to attach event to track t, tried on the present state
Attaches(t, event) ==
    {blastmidi_add_event(World, TRUE, t, event, 7, NULL),
     blastmidi_add_event_to_beginning_of_track(World, TRUE, t, event, 7),
     blastmidi_add_event_to_end_of_track(World, TRUE, t, event, 7)}

Removal(t, event) == blastmidi_remove_event_from_track(World, TRUE, t, event).result

AttachedEvents == {e \in Addr : heap[e].live /\ heap[e].track # -1}
OwnedEvents == {e \in Addr : heap[e].live /\ heap[e].track = -1}

\* attaching an attached event gives ALREADYADDED and changes nothing
ReattachRejected(ids) ==
    \A e \in AttachedEvents, t \in ids :
        \A r \in Attaches(t, e) :
            r.result = BLASTMIDI_ALREADYADDED /\ r.w.inst = instance /\ r.w.heap = heap

\* C7 as stated: attaching, by any of the three entry points, an event that is
\* attached returns ALREADYADDED and leaves the track unchanged; removing an
\* event that was never attached returns NOTADDED; removing an event through
\* a track id other than its track returns NOTPARTOFTRACK.
C7_MisuseCodes ==
    Idle =>
        /\ ReattachRejected(TrackIds)
        /\ \A e \in OwnedEvents, t \in TrackIds : Removal(t, e) = BLASTMIDI_NOTADDED
        /\ \A e \in AttachedEvents, t \in TrackIds :
              t # heap[e].track => Removal(t, e) = BLASTMIDI_NOTPARTOFTRACK

\* C7 with the track id of the remove call taken into account: the codes
\* NOTADDED and NOTPARTOFTRACK are given for a track id below track_count; for
\* a track id from track_count on, remove returns INVALIDPARAM whatever the
\* event is.
C7_MisuseCodesInRange ==
    Idle =>
        /\ ReattachRejected(TrackIds)
        /\ \A e \in OwnedEvents, t \in TrackIds :
              Removal(t, e) = IF t \in Tracks THEN BLASTMIDI_NOTADDED
                              ELSE BLASTMIDI_INVALIDPARAM
        /\ \A e \in AttachedEvents, t \in TrackIds :
              t # heap[e].track =>
                  Removal(t, e) = IF t \in Tracks THEN BLASTMIDI_NOTPARTOFTRACK
                                  ELSE BLASTMIDI_INVALIDPARAM

\* a remove of the creator's own event through an existing track was refused
\* while another event is attached
C7_RemoveOfOwnedRefused ==
    /\ Returned(RemoveOp)
    /\ call.result = BLASTMIDI_NOTADDED
    /\ OwnedEvents # {}
    /\ AttachedEvents # {}

\* C8: every attach, remove or navigation call that returns an error code
\* leaves the document unchanged: no head or tail slot, no field of any event
\* and no allocation changes.
C8_ErrorsChangeNothing ==
    [][(call'.op \in AttachOps \cup LookOps \cup {RemoveOp}
            /\ call'.result # BLASTMIDI_OK /\ ~ub')
        => (instance' = instance /\ heap' = heap /\ leaked' = leaked)]_vars

\* an attach of an attached event was refused
C8_AttachRefused ==
    /\ Returned("blastmidi_add_event_to_end_of_track")
    /\ call.result = BLASTMIDI_ALREADYADDED
    /\ AttachedEvents # {}

\* C9: blastmidi_whipe_track on a track that is not empty releases every event
\* attached to it and leaves the head slot and the tail slot of the track NULL
\* (a following get-first or get-last returns NULL); on a track out of range
\* or empty it changes nothing.
C9_WipeEmptiesTheTrack ==
    Returned("blastmidi_whipe_track") =>
        \A t \in Tracks :
            OnTrack(t) = {} =>
                Slot(instance.tracks, t) = NULL /\ Slot(instance.track_ends, t) = NULL

\* C10: the track field of an event is set once and for good.  For every track
\* id below track_count, with track_count up to 65535 and the field a signed
\* 16 bit number with -1 for unassigned: a successful attach takes the field of
\* an event from -1 to another value, the field of an attached event does not
\* change while the event lives, and every attach of an attached event returns
\* ALREADYADDED.
C10_TrackAssignedOnce ==
    /\ [](Idle => ReattachRejected(WideIds))
    /\ [][/\ \A e \in Addr :
                (heap[e].live /\ heap[e].track # -1 /\ heap'[e].live)
                    => heap'[e].track = heap[e].track
          /\ (call'.op \in AttachOps /\ call'.result = BLASTMIDI_OK /\ ~ub')
                => \E e \in Addr :
                      heap[e].live /\ heap[e].track = -1 /\ heap'[e].track # -1]_vars

\* an event was attached to track 32768, which its field holds as -32768, and
\* an attach of an attached event was refused
C10_AttachedBeyondInt16 ==
    /\ Returned("blastmidi_add_event_to_beginning_of_track")
    /\ call.result = BLASTMIDI_ALREADYADDED
    /\ \E e \in Addr : heap[e].live /\ heap[e].track = 0 - 32768

\* C11: for every track id t below track_count, with track_count up to
\* 65535, an event attached to track t is removed by
\* blastmidi_remove_event_from_track called with the same t: the call returns
\* OK and the event is unlinked and released.
C11_RemoveThroughOwnTrack ==
    Idle =>
        \A t \in WideIds :
            t \in Tracks =>
                \A e \in OnTrack(t) :
                    LET r == blastmidi_remove_event_from_track(World, TRUE, t, e)
                    IN  r.result = BLASTMIDI_OK /\ ~r.w.heap[e].live

----------------------------------------------------------------------------
(* The decoding functions applied to buffers.  A function of blastmidi.c   *)
(* is entered with the callback serving a buffer, and its result and the   *)
(* value it gave are kept in call with the buffer still in adapter.        *)

\* the function fn is entered on one of the buffers
Enter(fn, buffers) ==
    /\ Idle
    /\ instance.data_callback
    /\ adapter = NoAdapter
    /\ \E bytes \in buffers : adapter' = MemoryAdapter(bytes)
    /\ pc' = fn
    /\ call' = Call(fn, PENDING, FALSE, "memory")
    /\ UNCHANGED <<instance, heap, host, leaked, ub, cur_track>>

\* the function fn returns r
Leave(fn, r) ==
    /\ pc = fn
    /\ Commit(r.w)
    /\ adapter' = r.w.ad
    /\ pc' = "idle"
    /\ call' = [op |-> fn, result |-> r.result, oom |-> r.w.oom, file |-> "memory",
                value |-> r.value]
    /\ UNCHANGED <<host, cur_track>>

\* the bytes of the buffer that was served
Buffer == adapter.stream.head

\* fn has returned
Left(fn) == pc = "idle" /\ call.op = fn /\ adapter.file = "memory"

SeqsUpTo(S, n) == UNION {[1..k -> S] : k \in 1..n}

\* bytes with and without the top bit, at the ends of both ranges
NumberBytes == {0, 1, 64, 127, 128, 129, 255}
MaxNumberLen == 5
NumberBuffers == SeqsUpTo(NumberBytes, MaxNumberLen)

EnterVariableNumber == Enter("read_variable_number", NumberBuffers)
ReadVariableNumber == Leave("read_variable_number", read_variable_number(World))

\* the standard encoding of v as a variable-length quantity: groups of seven
\* bits, the most significant first, the top bit set on all but the last
RECURSIVE VlqGroups(_)
VlqGroups(v) == IF v = 0 THEN <<>> ELSE VlqGroups(v \div 128) \o <<128 + (v % 128)>>

VlqEncode(v) == VlqGroups(v \div 128) \o <<v % 128>>

\* the values whose encodings fill one, two, three and four bytes
RoundTripValues == {0, 127, 128, 16383, 16384, 2097151, 268435455}

\* the place of the first byte without the top bit among the first four, or 0
StopByte(bytes) ==
    LET stops == {k \in 1..Len(bytes) : k <= 4 /\ bytes[k] < 128}
    IN  IF stops = {} THEN 0 ELSE CHOOSE k \in stops : \A j \in stops : k <= j

\* the payloads of the first n bytes, seven bits each, the first the highest
RECURSIVE Payloads(_, _)
Payloads(bytes, n) ==
    IF n = 0 THEN 0 ELSE Payloads(bytes, n - 1) * 128 + (bytes[n] % 128)

\* a read by a caller that has not served a buffer
ReadAfresh(files) ==
    /\ adapter = NoAdapter
    /\ Read(files)

\* numbers decoded from buffers, and files with a number of five bytes
NextNumber ==
    \/ SetDataCallback({TRUE})
    \/ EnterVariableNumber
    \/ ReadVariableNumber
    \/ ReadAfresh(LongNumberStreams)
    \/ ReadTrack
    \/ ReadTrackEvents

SpecNumber == Init /\ [][NextNumber]_vars

\* C12: decoding a variable-length quantity consumes the bytes up to and
\* including the first byte whose top bit is 0 (at most 4) and returns their
\* 7 bit payloads concatenated, the first the most significant; for each v of
\* 0, 127, 128, 16383, 16384, 2097151, 268435455 decoding the standard encoding
\* of v returns v and moves the cursor on by the length of the encoding.
C12_VariableNumberDecodes ==
    [][(pc = "read_variable_number" /\ pc' = "idle") =>
          /\ StopByte(Buffer) # 0 =>
                /\ call'.result = BLASTMIDI_OK
                /\ call'.value = Payloads(Buffer, StopByte(Buffer))
                /\ instance'.cursor = instance.cursor + StopByte(Buffer)
                /\ adapter'.pos = adapter.pos + StopByte(Buffer)
          /\ \A v \in RoundTripValues :
                Buffer = VlqEncode(v) =>
                    /\ call'.result = BLASTMIDI_OK
                    /\ call'.value = v
                    /\ instance'.cursor = instance.cursor + Len(VlqEncode(v))]_vars

\* the largest value of four bytes was decoded from its encoding
C12_LargestDecoded ==
    /\ Left("read_variable_number")
    /\ Buffer = VlqEncode(268435455)
    /\ Len(Buffer) = 4
    /\ call.result = BLASTMIDI_OK
    /\ call.value = 268435455
    /\ instance.cursor = 4

\* C13: a variable-length quantity whose 4th byte still has its continuation
\* bit set makes the decoding fail with INVALIDCHUNK, so no value of more than
\* 28 bits is ever returned, wherever the number stands (delta time, length
\* of a meta event, length of a sysex event), and blastmidi_read then returns
\* INVALIDCHUNK with the document reset.
C13_FifthByteRejected ==
    /\ (Left("read_variable_number") /\ Len(Buffer) >= 4
            /\ \A k \in 1..4 : Buffer[k] >= 128)
        => call.result = BLASTMIDI_INVALIDCHUNK
    /\ (Left("read_variable_number") /\ call.result = BLASTMIDI_OK)
        => call.value < 268435456
    /\ (Returned("blastmidi_read") /\ call.file \in LongNumberStreams /\ ~call.oom)
        => call.result = BLASTMIDI_INVALIDCHUNK /\ Cleared

\* a file whose sysex length runs to a fifth byte was refused
C13_LongSysexLengthRefused ==
    /\ Returned("blastmidi_read")
    /\ call.file = "long_sysex_length"
    /\ call.result = BLASTMIDI_INVALIDCHUNK
    /\ Cleared

----------------------------------------------------------------------------
(* read_header applied to buffers *)

HeaderBuffer(magic, size, format, ntracks, division) ==
    magic \o size \o BE16(format) \o BE16(ntracks) \o BE16(division)

SixBytes == <<0, 0, 0, 6>>

Magics == {MThd, MTrk, <<77, 84, 104, 120>>, <<77, 84, 0, 100>>}
Sizes == {SixBytes, <<0, 0, 0, 5>>, <<0, 0, 0, 7>>, <<6, 0, 0, 0>>, <<0, 1, 0, 6>>,
          <<255, 255, 255, 255>>}
Formats == {0, 1, 2, 3, 256, 258, 65535}
Counts == {0, 1, 2, 256, 65535}
Divisions == {0, 96, 59176}

\* every combination of the fields above, and every time division in a
\* header that is otherwise good
HeaderBuffers ==
    {HeaderBuffer(m, s, f, n, d) :
        m \in Magics, s \in Sizes, f \in Formats, n \in Counts, d \in Divisions}
      \cup {HeaderBuffer(MThd, SixBytes, 1, 1, d) : d \in 0..65535}

EnterHeader == Enter("read_header", HeaderBuffers)

ReadHeader ==
    LET Valued(r) == [w |-> r.w, result |-> r.result, value |-> 0]
    IN  Leave("read_header", Valued(read_header(World)))

NextHeader ==
    \/ SetDataCallback({TRUE})
    \/ EnterHeader
    \/ ReadHeader
    \/ ReadAfresh(HeaderStreams)

SpecHeader == Init /\ [][NextHeader]_vars

\* the fields of the header in the buffer, the most significant byte first
MagicOf == SubSeq(Buffer, 1, 4)
SizeOf == SubSeq(Buffer, 5, 8)
FormatOf == Buffer[9] * 256 + Buffer[10]
CountOf == Buffer[11] * 256 + Buffer[12]
DivisionOf == Buffer[13] * 256 + Buffer[14]

FieldsGood ==
    MagicOf = MThd /\ SizeOf = SixBytes /\ FormatOf \in {0, 1, 2} /\ CountOf >= 1

\* C14: the header chunk is accepted only if its magic is "MThd", its 32 bit
\* length is exactly 6, its format is 0, 1 or 2 and its track count is >= 1;
\* each violation makes blastmidi_read return INVALID, and on acceptance
\* file_type and track_count are the big-endian fields of the header.
C14_HeaderFields ==
    /\ Left("read_header") =>
          /\ call.result = BLASTMIDI_OK =>
                /\ FieldsGood
                /\ instance.file_type = FormatOf
                /\ instance.track_count = CountOf
          /\ ~FieldsGood => call.result = BLASTMIDI_INVALID
    /\ (Returned("blastmidi_read") /\ call.file \in HeaderStreams)
          => call.result = BLASTMIDI_INVALID /\ Cleared

\* a header of format 2 with 65535 tracks was accepted
C14_LargestCountAccepted ==
    /\ Left("read_header")
    /\ call.result = BLASTMIDI_OK
    /\ FormatOf = 2
    /\ CountOf = 65535
    /\ instance.file_type = 2
    /\ instance.track_count = 65535

\* the fields the time division d sets when it is accepted
DivisionSets(frames) ==
    IF DivisionOf < 32768
    THEN instance.time_type = 0 /\ instance.ticks_per_beat = DivisionOf
    ELSE /\ instance.time_type = 1
         /\ instance.SMPTE_frames = frames
         /\ instance.ticks_per_frame = DivisionOf % 256

\* the 7 bits after the top bit of d as a signed number of 7 bits
FrameCode7 ==
    LET bits == (DivisionOf \div 256) % 128
    IN  IF bits >= 64 THEN bits - 128 ELSE bits

\* the top byte of d as a signed number of 8 bits
FrameCode8 ==
    LET byte == DivisionOf \div 256
    IN  IF byte >= 128 THEN byte - 256 ELSE byte

DivisionGood(frames) ==
    IF DivisionOf < 32768 THEN DivisionOf > 0
    ELSE frames \in {24, 25, 29, 30} /\ DivisionOf % 256 > 0

DivisionDecides(frames) ==
    (Left("read_header") /\ FieldsGood) =>
        /\ (call.result = BLASTMIDI_OK) <=> DivisionGood(frames)
        /\ call.result = BLASTMIDI_OK => DivisionSets(frames)

\* C15 as stated: for every 16 bit time division d, with the top bit 0 the
\* header is accepted exactly when the low 15 bits are > 0, and ticks_per_beat
\* is set to them; with the top bit 1 it is accepted exactly when the frame
\* code in the 7 bits after the top bit has absolute value 24, 25, 29 or 30
\* and the low 8 bits are > 0, and then SMPTE_frames is that absolute value
\* and ticks_per_frame the low 8 bits.
C15_DivisionBySevenBits == DivisionDecides(Abs(FrameCode7))

\* C15 with the frame code read as the code reads it: the whole top byte of
\* d, the top bit included, as a signed number of 8 bits.  The header is
\* accepted exactly for the top bytes 0xE8, 0xE7, 0xE3 and 0xE2 (-24, -25,
\* -29, -30) with low 8 bits > 0.
C15_DivisionByTopByte == DivisionDecides(Abs(FrameCode8))

\* the time division 0xE728 was accepted: 25 frames, 40 ticks per frame
C15_SmpteAccepted ==
    /\ Left("read_header")
    /\ DivisionOf = 59176
    /\ call.result = BLASTMIDI_OK
    /\ instance.SMPTE_frames = 25
    /\ instance.ticks_per_frame = 40

----------------------------------------------------------------------------
(* The event factories called by a creator that holds one event at a time *)

\* a factory returns r; args are the arguments it was called with
FactoryReturns(op, r, args) ==
    /\ Commit(r.w)
    /\ call' = [op |-> op, result |-> r.result, oom |-> r.w.oom, file |-> "none",
                args |-> args, event |-> r.event]
    /\ UNCHANGED <<adapter, host, pc, cur_track>>

\* the creator holds no event and no document is loaded
Unoccupied == ~instance.tracks.alloc /\ \A a \in Addr : ~heap[a].live

ChannelOp == "blastmidi_event_create_channel_event"
MetaDataOp == "blastmidi_event_create_meta_data_event"
SysexOp == "blastmidi_event_create_sysex_event"
FactoryOps == {ChannelOp, MetaDataOp, SysexOp}

CreateChannel(subtypes, firsts, seconds) ==
    /\ Idle
    /\ Unoccupied
    /\ \E subtype \in subtypes, param_1 \in firsts, param_2 \in seconds,
          addr \in FreeAddrs(World) \cup {NULL} :
         FactoryReturns(ChannelOp,
              blastmidi_event_create_channel_event(World, 9, subtype, param_1, param_2,
                                                   addr, TRUE),
              <<subtype, param_1, param_2>>)

MaxPayload == 3
Payload(n) == SubSeq(<<1, 2, 3, 4, 5, 6, 7, 8>>, 1, n)

CreateMetaData ==
    /\ Idle
    /\ Unoccupied
    /\ \E data_size \in 0..MaxPayload, addr \in FreeAddrs(World) \cup {NULL},
          blk \in BOOLEAN :
         FactoryReturns(MetaDataOp,
              blastmidi_event_create_meta_data_event(World, BLASTMIDI_META_TEXT,
                                                     Data(Payload(data_size)), data_size,
                                                     addr, blk),
              <<data_size>>)

CreateSysex ==
    /\ Idle
    /\ Unoccupied
    /\ \E data_size \in 0..MaxPayload, addr \in FreeAddrs(World) \cup {NULL},
          blk \in BOOLEAN :
         FactoryReturns(SysexOp,
              blastmidi_event_create_sysex_event(World, Data(Payload(data_size)),
                                                 data_size, 1, addr, blk),
              <<data_size>>)

AllSubtypes == 0..255
PitchBytes == {0, 1, 64, 127, 128, 192, 255}

\* create an event, look at it, release it; load a file and release the document
NextEvents ==
    \/ SetDataCallback({TRUE})
    \/ CreateChannel(AllSubtypes, {60}, {64})
    \/ CreateChannel({BLASTMIDI_CHANNEL_PITCH_BEND}, PitchBytes, PitchBytes)
    \/ CreateMetaData
    \/ CreateSysex
    \/ EventFree
    \/ ReadAfresh({"empty_text"})
    \/ ReadTrack
    \/ ReadTrackEvents
    \/ RemoveEvent(TrackIds)
    \/ WhipeTrack(TrackIds)
    \/ Free

SpecEvents == Init /\ [][NextEvents]_vars

\* a factory has just returned OK with the event it made
MadeBy(op) == Returned(op) /\ call.result = BLASTMIDI_OK

\* C16: a pitch bend event made from the data bytes (first, second) stores
\* (first & 0x7F) + 128 * (second & 0x7F), the first byte being the low 7 bits;
\* the value is in 0..16383, and the bytes (0x00, 0x40) give 8192.
C16_PitchBendFirstByteLow ==
    (MadeBy(ChannelOp) /\ call.args[1] = BLASTMIDI_CHANNEL_PITCH_BEND) =>
        LET stored == FromMem(heap[call.event].data, host)
        IN  /\ stored = (call.args[2] % 128) + 128 * (call.args[3] % 128)
            /\ stored \in 0..16383
            /\ (call.args[2] = 0 /\ call.args[3] = 64) => stored = 8192


\* the data size the documented subtypes have, 0 for every other subtype
DocumentedSize(subtype) ==
    IF subtype \in {8, 9, 10, 11, 14} THEN 2
    ELSE IF subtype \in {12, 13} THEN 1
    ELSE 0

\* the step is the return of the factory op
ReturnOf(op) == pc = "idle" /\ pc' = "idle" /\ call'.op = op /\ ~ub'

\* C17: blastmidi_event_create_channel_event accepts exactly note off, note
\* on, note aftertouch, controller, program change, channel aftertouch and
\* pitch bend; the event has data_size 2, except for program change and
\* channel aftertouch, which have data_size 1; every other subtype returns
\* INVALIDPARAM and nothing is created or allocated.
C17_ChannelSubtypes ==
    [][ReturnOf(ChannelOp) =>
          LET subtype == call'.args[1]
              size == DocumentedSize(subtype)
          IN  IF size = 0
              THEN /\ call'.result = BLASTMIDI_INVALIDPARAM
                   /\ call'.event = NULL
                   /\ ~call'.oom
                   /\ heap' = heap
                   /\ leaked' = leaked
                   /\ instance' = instance
              ELSE /\ call'.result \in {BLASTMIDI_OK, BLASTMIDI_OUTOFMEMORY}
                   /\ call'.result = BLASTMIDI_OUTOFMEMORY => call'.oom /\ heap' = heap
                   /\ call'.result = BLASTMIDI_OK =>
                         /\ ~heap[call'.event].live
                         /\ heap'[call'.event].live
                         /\ heap'[call'.event].type = BLASTMIDI_CHANNEL_EVENT
                         /\ heap'[call'.event].subtype = subtype
                         /\ heap'[call'.event].data_size = size
                         /\ Len(heap'[call'.event].data) = size]_vars

\* a channel aftertouch event was made, with one data byte
C17_AftertouchMade ==
    /\ MadeBy(ChannelOp)
    /\ call.args[1] = BLASTMIDI_CHANNEL_CHANNEL_AFTERTOUCH
    /\ heap[call.event].live
    /\ heap[call.event].data_size = 1
    /\ heap[call.event].data = <<60>>

\* C18: for every event made by a factory or by decoding, with a payload of
\* any size, 0 included: a payload of at most 2 bytes lives in the 2 byte
\* buffer inside the event and nothing else is allocated for it; only a
\* payload of more than 2 bytes has a buffer of its own.
C18_SmallPayloadInline ==
    \A e \in Addr :
        heap[e].live =>
            (heap[e].data_kind = "block") <=> (heap[e].data_size > 2)

\* C19: releasing an event (blastmidi_event_free, remove, wipe, reset)
\* releases every allocation made when it was created, whatever the size of
\* its payload: no block stays allocated that nothing refers to.
C19_ReleaseReleasesAll ==
    [][(pc' = "idle" /\ ~ub') => leaked' = leaked]_vars

----------------------------------------------------------------------------
(* blastmidi_initialize *)

\* the document part of the instance is all zero
Zeroed ==
    /\ instance.tracks = NoArray
    /\ instance.track_ends = NoArray
    /\ instance.track_count = 0
    /\ instance.valid = 0
    /\ ~instance.data_callback
    /\ instance.file_type = 0
    /\ instance.time_type = 0
    /\ instance.ticks_per_beat = 0
    /\ instance.SMPTE_frames = 0
    /\ instance.ticks_per_frame = 0
    /\ instance.cursor = 0
    /\ instance.running_status = 0
    /\ instance.sysex_continuation = 0

\* C20: blastmidi_initialize returns INVALIDPARAM when exactly one of the two
\* allocator functions is passed, installs malloc and free when both are
\* omitted and the pair passed when both are given; where it accepts, the
\* document is zeroed (no tracks, valid 0, no callback) and the endian flag
\* is 1 or 2.
C20_InitializeAllocators ==
    Returned("blastmidi_initialize") =>
        LET user_malloc == call.args[1]
            user_free == call.args[2]
        IN  /\ (user_malloc # user_free) => call.result = BLASTMIDI_INVALIDPARAM
            /\ (~user_malloc /\ ~user_free) =>
                  /\ call.result = BLASTMIDI_OK
                  /\ instance.malloc_function = "malloc"
                  /\ instance.free_function = "free"
            /\ (user_malloc /\ user_free) =>
                  /\ call.result = BLASTMIDI_OK
                  /\ instance.malloc_function = "user_malloc"
                  /\ instance.free_function = "user_free"
            /\ call.result = BLASTMIDI_OK =>
                  /\ Zeroed
                  /\ instance.endian_flag \in {1, 2}
                  /\ instance.endian_flag = (IF host THEN 1 ELSE 2)

\* the pair of functions the caller passed was installed
C20_UserPairInstalled ==
    /\ Returned("blastmidi_initialize")
    /\ call.args = <<TRUE, TRUE>>
    /\ call.result = BLASTMIDI_OK
    /\ instance.malloc_function = "user_malloc"
    /\ instance.free_function = "user_free"
    /\ Zeroed

----------------------------------------------------------------------------
(* Callbacks that report failure *)

RECURSIVE AllBytes(_, _)
AllBytes(s, n) == IF n = 0 THEN <<>> ELSE Append(AllBytes(s, n - 1), ByteAt(s, n - 1))

\* well-formed files in which no event is made before the data is cut
\* that asks the allocator for 0 bytes
CutStreams == {"two_notes", "smpte", "texts"}

\* every proper prefix of each of these files: the data ends too early
CutShort ==
    UNION {{SubSeq(AllBytes(Files[f].stream, StreamLen(Files[f].stream)), 1, n) :
                n \in 0..(StreamLen(Files[f].stream) - 1)} : f \in CutStreams}

\* a file that ends before its end of track, and the files behind a callback
\* that fails every seek
FailingStreams == {"no_end"} \cup Pipes

NextAdapter ==
    \/ SetDataCallback({TRUE})
    \/ ReadBuffer(CutShort)
    \/ ReadAfresh(FailingStreams)
    \/ ReadTrack
    \/ ReadTrackEvents

SpecAdapter == Init /\ [][NextAdapter]_vars

\* C21: every failure the callback reports during a read, for a read action
\* or a seek action (the seek back of one byte for running status and the
\* seek forward over skipped meta events included), makes blastmidi_read
\* return UNEXPECTEDEND with the document reset; a track without end of track
\* before the end of the data fails with UNEXPECTEDEND.  Every read here meets
\* a failure of the callback unless an allocation fails first.
C21_CallbackFailureEndsRead ==
    (Returned("blastmidi_read") /\ ~call.oom /\ call.file \in FailingStreams \cup {"memory"})
        => call.result = BLASTMIDI_UNEXPECTEDEND /\ Cleared

----------------------------------------------------------------------------
(* Decoding tracks built from events of every kind *)

TokNote == [bytes |-> <<0, 145, 60, 64>>, ev |-> <<>>]
TokRunningTwo == [bytes |-> <<0, 62, 64>>, ev |-> <<>>]
TokProgramSix == [bytes |-> <<0, 198, 5>>, ev |-> <<>>]
TokRunningOne == [bytes |-> <<0, 7>>, ev |-> <<>>]
TokPrefix == [bytes |-> <<0, 255, 32, 1, 5>>, ev |-> <<>>]
TokSysexOpen == [bytes |-> <<0, 240, 3, 1, 2, 3>>, ev |-> <<>>]
TokSysexOne == [bytes |-> <<0, 240, 1, 247>>, ev |-> <<>>]
TokSysexNone == [bytes |-> <<0, 240, 0>>, ev |-> <<>>]
TokEscapeOpen == [bytes |-> <<0, 247, 2, 8, 9>>, ev |-> <<>>]
TokEscapeClosed == [bytes |-> <<0, 247, 2, 9, 247>>, ev |-> <<>>]
TokEscapeNone == [bytes |-> <<0, 247, 0>>, ev |-> <<>>]

\* an end-of-track event that declares one byte of data
TokEndOfTrackOne == [bytes |-> <<0, 255, 47, 1>>, ev |-> <<>>]

DecodeToks ==
    {TokNote, TokRunningTwo, TokProgramSix, TokRunningOne, TokPrefix, TokText,
     TokSysexOpen, TokSysexOne, TokSysexNone, TokEscapeOpen, TokEscapeClosed,
     TokEscapeNone, TokEndOfTrack, TokEndOfTrackOne}

MaxToks == 3
TokSeqs(n) == UNION {[1..k -> DecodeToks] : k \in 0..n}

\* files of one track of up to MaxToks events, and files of two tracks
DecodeBuffers ==
    {Header(1, 1, 96) \o Chunk(a) : a \in TokSeqs(MaxToks)}
      \cup {Header(1, 2, 96) \o Chunk(a) \o Chunk(b) :
                a \in TokSeqs(1), b \in TokSeqs(MaxToks - 1)}

\* a caller that sets its callback and loads its data at once
ReadBufferFirst(buffers) ==
    /\ call.op = "blastmidi_set_data_callback"
    /\ \A a \in Addr : heap[a] = BlankEvent
    /\ ReadBuffer(buffers)

PrefixOp == "blastmidi_event_create_meta_midi_channel_prefix_event"

CreateChannelPrefix ==
    /\ Idle
    /\ Unoccupied
    /\ \E channel \in {0, 5, 15}, addr \in FreeAddrs(World) \cup {NULL} :
         FactoryReturns(PrefixOp,
                        blastmidi_event_create_meta_midi_channel_prefix_event(
                            World, channel, addr, TRUE),
                        <<channel>>)

NextDecode ==
    \/ SetDataCallback({TRUE})
    \/ ReadBufferFirst(DecodeBuffers)
    \/ ReadTrack
    \/ ReadTrackEvents
    \/ CreateChannelPrefix

SpecDecode == Init /\ [][NextDecode]_vars

\* C22: a meta channel prefix event, decoded from FF 20 01 cc or made by
\* blastmidi_event_create_meta_midi_channel_prefix_event ( channel = cc ), has
\* cc in its channel field as well as in its payload of 1 byte.
C22_PrefixSetsChannel ==
    \A e \in Addr :
        (/\ heap[e].live
         /\ heap[e].type = BLASTMIDI_META_EVENT
         /\ heap[e].subtype = BLASTMIDI_META_MIDI_CHANNEL_PREFIX)
            => /\ heap[e].data_size = 1
               /\ heap[e].channel = heap[e].data[1]

----------------------------------------------------------------------------
(* blastmidi_free *)

\* the instance blastmidi_initialize makes for the allocators and the
\* callback the instance has
Fresh(inst) ==
    [blastmidi_initialize(inst.malloc_function = "user_malloc",
                          inst.free_function = "user_free").inst
        EXCEPT !.data_callback = inst.data_callback]

\* C23: blastmidi_free leaves the document as a full reset does: no tracks,
\* no arrays, every format, validity and parse field cleared.  The instance is then the one blastmidi_initialize makes,
\* with the callback kept, so that a later blastmidi_read behaves as on a fresh
\* instance; and a second blastmidi_free directly after the first changes
\* nothing and releases nothing.
C23_FreeIsFullReset ==
    [][(pc = "idle" /\ call'.op = "blastmidi_free" /\ ~ub') =>
          /\ Cleared'
          /\ instance' = Fresh(instance)
          /\ call.op = "blastmidi_free" =>
                instance' = instance /\ heap' = heap /\ leaked' = leaked]_vars

\* blastmidi_free has released the events of a document
C23_DocumentFreed ==
    /\ Returned("blastmidi_free")
    /\ Cleared
    /\ instance = Fresh(instance)
    /\ \E a \in Addr : heap[a] = FreedEvent

----------------------------------------------------------------------------
(* Where an attach places the event *)

\* the events met from a along next in the heap h, at most n of them
RECURSIVE ListIn(_, _, _)
ListIn(h, a, n) ==
    IF a = NULL \/ n = 0 THEN <<>> ELSE <<a>> \o ListIn(h, h[a].next, n - 1)

\* track t of the world w in forward order
ForwardOf(w, t) == ListIn(w.heap, Slot(w.inst.tracks, t), MaxEvents + 1)

\* the events the caller has made and not attached
Unattached == {e \in Addr : heap[e].live /\ heap[e].track = -1}

\* the event is attached with its delta time and is first on the track t
PlacedFirst(r, t, e, delta_time) ==
    /\ r.result = BLASTMIDI_OK
    /\ r.w.heap[e].time = delta_time
    /\ ForwardOf(r.w, t) # <<>>
    /\ Head(ForwardOf(r.w, t)) = e

\* C24: a successful attach places the event where the documentation says, in
\* forward order, and sets its time to delta_time: blastmidi_add_event with
\* add_after = X makes the event the immediate successor of X, and the former
\* successor of X the successor of the event; add_after = NULL and
\* blastmidi_add_event_to_beginning_of_track make it the first event;
\* blastmidi_add_event_to_end_of_track makes it the last event, and on an empty
\* track also the first.
C24_AttachPlacesEvent ==
    Idle =>
        \A t \in Tracks, e \in Unattached, delta_time \in Deltas :
            /\ \A X \in OnTrack(t) :
                  LET r == blastmidi_add_event(World, TRUE, t, e, delta_time, X)
                  IN  /\ r.result = BLASTMIDI_OK
                      /\ r.w.heap[e].time = delta_time
                      /\ r.w.heap[X].next = e
                      /\ r.w.heap[e].next = heap[X].next
            /\ PlacedFirst(blastmidi_add_event(World, TRUE, t, e, delta_time, NULL),
                           t, e, delta_time)
            /\ PlacedFirst(blastmidi_add_event_to_beginning_of_track(
                               World, TRUE, t, e, delta_time),
                           t, e, delta_time)
            /\ LET r == blastmidi_add_event_to_end_of_track(World, TRUE, t, e, delta_time)
                   list == ForwardOf(r.w, t)
               IN  /\ r.result = BLASTMIDI_OK
                   /\ r.w.heap[e].time = delta_time
                   /\ list # <<>>
                   /\ list[Len(list)] = e
                   /\ r.w.heap[e].next = NULL
                   /\ Slot(instance.tracks, t) = NULL => Head(list) = e

----------------------------------------------------------------------------
(* Released events *)

Released(a) == a # NULL /\ ~heap[a].live

\* C25: over any sequence of read, attach, remove, wipe-track and free calls
\* the release function is never called twice on one event (which is
\* undefined behaviour), and no released event is reachable from a head slot,
\* a tail slot, or the next or previous pointer of a live event.
C25_ReleasedOnceAndUnreachable ==
    /\ ~ub
    /\ \A a \in RangeOf(instance.tracks) \cup RangeOf(instance.track_ends) : ~Released(a)
    /\ \A e \in Addr :
          heap[e].live => ~Released(heap[e].next) /\ ~Released(heap[e].previous)

----------------------------------------------------------------------------
(* The event loop, one iteration at a time.  Every delta time in the data  *)
(* is one byte, so the byte at the status position is the second byte.     *)

Served == StreamOf(adapter)
AtEvent == pc = "events" /\ adapter.pos + 1 < StreamLen(Served) /\ ByteAt(Served, adapter.pos) < 128
StatusByte == ByteAt(Served, adapter.pos + 1)

\* the bytes of the data from position p on, n of them
BytesFrom(p, n) == [k \in 1..n |-> ByteAt(Served, p + k - 1)]

\* the iteration decoded an event and the loop goes on
GoesOn == pc' = "events" /\ call'.result = PENDING /\ ~ub'

\* the event the iteration made: it is the last of the track
NewEvent(e) ==
    /\ ~heap[e].live
    /\ heap'[e].live
    /\ heap'[e].track = cur_track
    /\ Slot(instance'.track_ends, cur_track) = e

\* the iteration consumed n bytes after the delta time
Consumed(n) ==
    /\ instance'.cursor = instance.cursor + 1 + n
    /\ adapter'.pos = adapter.pos + 1 + n

\* C26: in the event loop a byte with top bit 0 at the status position is the
\* first data byte of a channel event whose status is running_status: the
\* cursor goes back by exactly one byte, the event has the kind and the channel
\* of the last channel status byte of this track, and its data bytes are read
\* starting with that byte.  A byte with top bit 1 that is not 0xFF, 0xF0 or
\* 0xF7 becomes the new running_status; those three leave it as it is.
C26_RunningStatus ==
    [][(AtEvent /\ GoesOn) =>
          LET status == instance.running_status
          IN  IF StatusByte < 128
              THEN /\ instance'.running_status = status
                   /\ \E e \in Addr :
                         /\ NewEvent(e)
                         /\ heap'[e].type = BLASTMIDI_CHANNEL_EVENT
                         /\ heap'[e].subtype = status \div 16
                         /\ heap'[e].channel = status % 16
                         /\ heap'[e].data = BytesFrom(adapter.pos + 1, heap'[e].data_size)
                         /\ Consumed(heap'[e].data_size)
              ELSE IF StatusByte \notin {255, 240, 247}
              THEN /\ instance'.running_status = StatusByte
                   /\ \E e \in Addr :
                         /\ NewEvent(e)
                         /\ heap'[e].type = BLASTMIDI_CHANNEL_EVENT
                         /\ heap'[e].subtype = StatusByte \div 16
                         /\ heap'[e].channel = StatusByte % 16
                         /\ heap'[e].data = BytesFrom(adapter.pos + 2, heap'[e].data_size)
                         /\ Consumed(1 + heap'[e].data_size)
              ELSE instance'.running_status = status]_vars

\* a note decoded through running status right after a meta event: it has the
\* kind and channel of the note on before the meta event
C26_RunningAfterMeta ==
    /\ pc = "events"
    /\ ~ub
    /\ instance.running_status = 145
    /\ \E e \in Addr :
          /\ heap[e].live
          /\ Slot(instance.track_ends, cur_track) = e
          /\ heap[e].subtype = BLASTMIDI_CHANNEL_NOTE_ON
          /\ heap[e].channel = 1
          /\ heap[e].data = <<62, 64>>
          /\ heap[e].previous # NULL
          /\ heap[heap[e].previous].type = BLASTMIDI_META_EVENT


\* the loop is at the first event of a track: the 8 bytes before the
\* position are the magic and the size of a track chunk
FirstEvent ==
    /\ pc = "events"
    /\ adapter.file = "memory"
    /\ adapter.pos >= 8
    /\ BytesFrom(adapter.pos - 8, 4) = MTrk

\* C27: running_status and sysex_continuation never carry over from one track
\* to the next: at the start of the event loop of every track both are 0, so
\* a track whose first event starts with a byte with top bit 0 fails with
\* INVALIDCHUNK whatever the track before ended with, and a first 0xF7 of a
\* track is decoded as an escape packet (all its declared bytes are payload,
\* end_of_sysex = 1) even if the track before ended inside a split sysex
\* message.
C27_StatusStaysInTrack ==
    [][/\ (pc = "track" /\ pc' = "events") =>
              instance'.running_status = 0 /\ instance'.sysex_continuation = 0
       /\ FirstEvent =>
              instance.running_status = 0 /\ instance.sysex_continuation = 0
       /\ (FirstEvent /\ AtEvent /\ StatusByte < 128 /\ ~ub') =>
              /\ pc' = "idle"
              /\ call'.result = BLASTMIDI_INVALIDCHUNK
              /\ Cleared'
       /\ (FirstEvent /\ AtEvent /\ StatusByte = 247 /\ GoesOn) =>
              LET L == ByteAt(Served, adapter.pos + 2)
              IN  /\ instance'.sysex_continuation = 0
                  /\ L = 0 => heap' = heap
                  /\ L > 0 =>
                        \E e \in Addr :
                            /\ NewEvent(e)
                            /\ heap'[e].type = BLASTMIDI_SYSEX_EVENT
                            /\ heap'[e].data = BytesFrom(adapter.pos + 3, L)
                            /\ heap'[e].end_of_sysex = 1]_vars

\* track 0 ended inside a split sysex message, and the 0xF7 that starts
\* track 1 was decoded as an escape packet of two bytes
C27_EscapeAfterSplitSysex ==
    /\ pc = "events"
    /\ ~ub
    /\ cur_track = 1
    /\ Slot(instance.track_ends, 0) # NULL
    /\ heap[Slot(instance.track_ends, 0)].type = BLASTMIDI_SYSEX_EVENT
    /\ heap[Slot(instance.track_ends, 0)].end_of_sysex = 0
    /\ Slot(instance.tracks, 1) # NULL
    /\ heap[Slot(instance.tracks, 1)].type = BLASTMIDI_SYSEX_EVENT
    /\ heap[Slot(instance.tracks, 1)].data = <<9, 247>>
    /\ heap[Slot(instance.tracks, 1)].end_of_sysex = 1
    /\ instance.sysex_continuation = 0


\* the event at the position is a sysex fragment: 0xF0, or 0xF7 while a
\* split message is pending
AtFragment ==
    /\ AtEvent
    /\ \/ StatusByte = 240
       \/ StatusByte = 247 /\ instance.sysex_continuation = 1

\* the declared length of the sysex or escape event at the position
DeclaredLength == ByteAt(Served, adapter.pos + 2)

\* C28: a sysex fragment (0xF0, or 0xF7 while a continuation is pending) with
\* declared length L: for L = 0 no event is created and sysex_continuation is
\* unchanged; for L >= 1 one sysex event is created whose payload is the first
\* L - 1 bytes, then one more byte b is read, and end_of_sysex = 1 with
\* sysex_continuation = 0 if b = 0xF7, else end_of_sysex = 0 with
\* sysex_continuation = 1.
C28_SysexFragment ==
    [][(AtFragment /\ GoesOn) =>
          LET L == DeclaredLength
              b == ByteAt(Served, adapter.pos + 2 + L)
          IN  /\ L = 0 =>
                    /\ heap' = heap
                    /\ instance'.sysex_continuation = instance.sysex_continuation
                    /\ Consumed(2)
              /\ L > 0 =>
                    /\ Consumed(2 + L)
                    /\ \E e \in Addr :
                          /\ NewEvent(e)
                          /\ \A o \in Addr \ {e} : heap'[o].live = heap[o].live
                          /\ heap'[e].type = BLASTMIDI_SYSEX_EVENT
                          /\ heap'[e].data_size = L - 1
                          /\ \A k \in 1..(L - 1) :
                                heap'[e].data[k] = ByteAt(Served, adapter.pos + 2 + k)
                          /\ IF b = 247
                             THEN /\ heap'[e].end_of_sysex = 1
                                  /\ instance'.sysex_continuation = 0
                             ELSE /\ heap'[e].end_of_sysex = 0
                                  /\ instance'.sysex_continuation = 1]_vars

\* a message split in two: the 0xF0 fragment is open, the 0xF7 fragment
\* that follows it ends the message
C28_SplitMessageRead ==
    /\ pc = "events"
    /\ ~ub
    /\ instance.sysex_continuation = 0
    /\ Slot(instance.tracks, cur_track) # NULL
    /\ Slot(instance.track_ends, cur_track) # Slot(instance.tracks, cur_track)
    /\ heap[Slot(instance.tracks, cur_track)].type = BLASTMIDI_SYSEX_EVENT
    /\ heap[Slot(instance.tracks, cur_track)].data_size = 2
    /\ heap[Slot(instance.tracks, cur_track)].end_of_sysex = 0
    /\ heap[Slot(instance.track_ends, cur_track)].type = BLASTMIDI_SYSEX_EVENT
    /\ heap[Slot(instance.track_ends, cur_track)].data_size = 1
    /\ heap[Slot(instance.track_ends, cur_track)].data[1] = 9
    /\ heap[Slot(instance.track_ends, cur_track)].end_of_sysex = 1


\* the number of data bytes that follow a channel status byte
DataBytes(status) ==
    IF status \div 16 \in {BLASTMIDI_CHANNEL_PROGRAM_CHANGE, BLASTMIDI_CHANNEL_CHANNEL_AFTERTOUCH}
    THEN 1 ELSE 2

\* where the events of the track that is being read start: right after the
\* last chunk magic and size before the position
TrackStart ==
    CHOOSE q \in 8..adapter.pos :
        /\ BytesFrom(q - 8, 4) = MTrk
        /\ \A r \in (q + 1)..adapter.pos : BytesFrom(r - 8, 4) # MTrk

\* whether, going through the bytes of the track from event boundary p to
\* event boundary q, the most recent non-empty sysex fragment ended with a
\* byte other than 0xF7 (delta-times and lengths of one byte)
RECURSIVE PendingFrom(_, _, _, _)
PendingFrom(p, q, status, pending) ==
    IF p >= q THEN pending
    ELSE LET s == ByteAt(Served, p + 1)
             L == ByteAt(Served, p + 2)
         IN  IF s = 255
             THEN PendingFrom(p + 4 + ByteAt(Served, p + 3), q, status, pending)
             ELSE IF s = 240 \/ (s = 247 /\ pending)
             THEN PendingFrom(p + 3 + L, q, status,
                              IF L = 0 THEN pending
                              ELSE ByteAt(Served, p + 2 + L) # 247)
             ELSE IF s = 247
             THEN PendingFrom(p + 3 + L, q, status, pending)
             ELSE IF s >= 128
             THEN PendingFrom(p + 2 + DataBytes(s), q, s, pending)
             ELSE PendingFrom(p + 1 + DataBytes(status), q, status, pending)

Pending == PendingFrom(TrackStart, adapter.pos, 0, FALSE)

\* C29: within one track a 0xF7 status is decoded as a sysex continuation
\* exactly when the most recent non-empty sysex fragment of the track ended
\* with a byte other than 0xF7, whatever channel or meta events lie in
\* between; otherwise it is decoded as an escape packet whose payload is all
\* the L declared bytes, which has end_of_sysex = 1 and leaves
\* sysex_continuation unchanged.
C29_ContinuationOrEscape ==
    [][(AtEvent /\ StatusByte = 247 /\ GoesOn) =>
          LET L == DeclaredLength
          IN  /\ Pending <=> instance.sysex_continuation = 1
              /\ L = 0 =>
                    /\ heap' = heap
                    /\ instance'.sysex_continuation = instance.sysex_continuation
              /\ L > 0 =>
                    \E e \in Addr :
                        /\ NewEvent(e)
                        /\ heap'[e].type = BLASTMIDI_SYSEX_EVENT
                        /\ IF Pending
                           THEN /\ heap'[e].data_size = L - 1
                                /\ \A k \in 1..(L - 1) :
                                      heap'[e].data[k] = ByteAt(Served, adapter.pos + 2 + k)
                                /\ heap'[e].end_of_sysex =
                                      IF ByteAt(Served, adapter.pos + 2 + L) = 247
                                      THEN 1 ELSE 0
                                /\ instance'.sysex_continuation = 1 - heap'[e].end_of_sysex
                           ELSE /\ heap'[e].data_size = L
                                /\ heap'[e].data = BytesFrom(adapter.pos + 3, L)
                                /\ heap'[e].end_of_sysex = 1
                                /\ instance'.sysex_continuation
                                       = instance.sysex_continuation]_vars

\* an open 0xF0 fragment, a channel event, and then a 0xF7 that was decoded
\* as the fragment that ends the message
C29_ContinuationAfterNote ==
    /\ pc = "events"
    /\ ~ub
    /\ Slot(instance.tracks, cur_track) # NULL
    /\ LET first == Slot(instance.tracks, cur_track)
           last == Slot(instance.track_ends, cur_track)
       IN  /\ heap[first].type = BLASTMIDI_SYSEX_EVENT
           /\ heap[first].end_of_sysex = 0
           /\ heap[first].next \notin {NULL, last}
           /\ heap[heap[first].next].type = BLASTMIDI_CHANNEL_EVENT
           /\ heap[heap[first].next].next = last
           /\ heap[last].type = BLASTMIDI_SYSEX_EVENT
           /\ heap[last].data_size = 1
           /\ heap[last].end_of_sysex = 1
    /\ instance.sysex_continuation = 0


\* the event at the position is an end-of-track meta event, with its type
\* and its length in the stream
AtEndOfTrack ==
    /\ AtEvent
    /\ StatusByte = 255
    /\ adapter.pos + 3 < StreamLen(Served)
    /\ ByteAt(Served, adapter.pos + 2) = BLASTMIDI_META_END_OF_TRACK
    /\ ByteAt(Served, adapter.pos + 3) < 128

Reading == pc \in {"track", "events"} /\ adapter.file = "memory"

\* C30: the event loop of a track stops at the first end-of-track meta event:
\* no event is appended for it, no byte after it is consumed for this track,
\* and the magic of the next track chunk (or nothing, for the last track) is
\* read starting at the byte right after the length field of the end-of-track
\* event; no event is ever appended to a track after its end-of-track.
C30_EndOfTrackStopsLoop ==
    [][/\ (AtEndOfTrack /\ ~ub') =>
              /\ heap' = heap
              /\ instance'.tracks = instance.tracks
              /\ instance'.track_ends = instance.track_ends
              /\ instance'.cursor = instance.cursor + 4
              /\ IF cur_track + 1 < instance.track_count
                 THEN /\ pc' = "track"
                      /\ cur_track' = cur_track + 1
                      /\ adapter'.pos = adapter.pos + 4
                 ELSE /\ pc' = "idle"
                      /\ call'.result = BLASTMIDI_OK
                      /\ instance'.valid = 1
       /\ (pc = "track" /\ Reading /\ adapter.pos + 8 <= StreamLen(Served) /\ ~ub') =>
              IF BytesFrom(adapter.pos, 4) = MTrk
                     /\ BytesFrom(adapter.pos + 4, 4) # <<0, 0, 0, 0>>
              THEN /\ pc' = "events"
                   /\ cur_track' = cur_track
                   /\ adapter'.pos = adapter.pos + 8
              ELSE /\ pc' = "idle"
                   /\ call'.result = BLASTMIDI_INVALIDCHUNK
       /\ (Reading /\ ~ub' /\ (pc' \in {"track", "events"} \/ call'.result = BLASTMIDI_OK)) =>
              /\ pc' = "events" => cur_track' = cur_track
              /\ pc' = "track" => cur_track' = cur_track + 1
              /\ \A e \in Addr :
                    /\ (heap[e].live /\ heap[e].track < cur_track) => heap'[e] = heap[e]
                    /\ (heap'[e].live /\ ~heap[e].live) =>
                           pc = "events" /\ heap'[e].track = cur_track
              /\ \A t \in 0..(cur_track - 1) :
                    /\ Slot(instance'.tracks, t) = Slot(instance.tracks, t)
                    /\ Slot(instance'.track_ends, t) = Slot(instance.track_ends, t)]_vars

\* track 0 ended at an end-of-track event that declared one byte of data and
\* was followed by more bytes of its chunk: the track is left empty, and the
\* magic of track 1 is looked for at the byte after the length field
C30_StoppedBeforeMoreBytes ==
    /\ pc = "track"
    /\ ~ub
    /\ cur_track = 1
    /\ adapter.pos >= 4
    /\ BytesFrom(adapter.pos - 4, 4) = TokEndOfTrackOne.bytes
    /\ BytesFrom(adapter.pos, 4) = TokEndOfTrack.bytes
    /\ Slot(instance.tracks, 0) = NULL
    /\ instance.cursor = adapter.pos

----------------------------------------------------------------------------
(* Track chunks: magic, declared length, unknown meta events and status bytes *)

\* meta events of types the switch of read_meta_event does not name
TokUnknownNone == [bytes |-> <<0, 255, 9, 0>>, ev |-> <<>>]
TokUnknownPort == [bytes |-> <<0, 255, 33, 1, 0>>, ev |-> <<>>]
\* an unknown meta event that declares more bytes than the data holds
TokUnknownLong == [bytes |-> <<0, 255, 9, 100>>, ev |-> <<>>]

\* status bytes that are neither meta, sysex nor a channel status
TokStatusF1 == [bytes |-> <<0, 241, 1>>, ev |-> <<>>]
TokStatusF8 == [bytes |-> <<0, 248>>, ev |-> <<>>]
TokStatusFE == [bytes |-> <<0, 254>>, ev |-> <<>>]

ChunkToks ==
    {TokNote, TokRunningTwo, TokText, TokUnknownMeta, TokUnknownNone, TokUnknownPort,
     TokUnknownLong, TokStatusF1, TokStatusF8, TokStatusFE}

MaxChunkToks == 2
ChunkSeqs(n) == UNION {[1..k -> ChunkToks] : k \in 0..n}

\* the events of a track as they stand in a chunk, end of track included
Body(toks) == TokBytes(toks) \o TokEndOfTrack.bytes

TrueSize(toks) == BE32(Len(Body(toks)))

\* what a chunk can declare as its length besides its true length
OtherSizes == {<<0, 0, 0, 0>>, <<0, 0, 0, 1>>, <<0, 0, 1, 0>>, <<255, 255, 255, 255>>}

\* what a chunk can have where "MTrk" should be
OtherMagics == {MThd, <<77, 84, 114, 75>>}

\* the ways a chunk of the events toks can start: magic and declared length
ChunkHeads(toks) ==
    {MTrk \o size : size \in OtherSizes \cup {TrueSize(toks)}}
        \cup {magic \o TrueSize(toks) : magic \in OtherMagics}

\* files of one track and of two tracks, the last chunk with any head
ChunkBuffers ==
    UNION {{Header(1, 1, 96) \o head \o Body(a) : head \in ChunkHeads(a)} :
               a \in ChunkSeqs(MaxChunkToks)}
      \cup UNION {{Header(1, 2, 96) \o Chunk(a) \o head \o Body(b) :
                       head \in ChunkHeads(b), a \in ChunkSeqs(1)} :
                      b \in ChunkSeqs(1)}

NextChunk ==
    \/ SetDataCallback({TRUE})
    \/ ReadBufferFirst(ChunkBuffers)
    \/ ReadTrack
    \/ ReadTrackEvents

SpecChunk == Init /\ [][NextChunk]_vars

\* the meta event types read_meta_event has a case for
KnownMetaTypes ==
    MetaDataSubtypes
        \cup {BLASTMIDI_META_SEQUENCE_NUMBER, BLASTMIDI_META_MIDI_CHANNEL_PREFIX,
              BLASTMIDI_META_END_OF_TRACK, BLASTMIDI_META_SET_TEMPO,
              BLASTMIDI_META_SMPTE_OFFSET, BLASTMIDI_META_TIME_SIGNATURE,
              BLASTMIDI_META_KEY_SIGNATURE}

\* the event at the position is a meta event of an unknown type, with its
\* type and its length of one byte in the stream
AtUnknownMeta ==
    /\ AtEvent
    /\ StatusByte = 255
    /\ adapter.pos + 3 < StreamLen(Served)
    /\ ByteAt(Served, adapter.pos + 2) \notin KnownMetaTypes
    /\ ByteAt(Served, adapter.pos + 3) < 128

\* C31: a meta event whose type is not one of the known types is not an
\* error: the decoder moves the cursor on by exactly the declared length, by
\* a seek to the absolute position cursor + length, appends no event, and
\* goes on with the next event of the track.  (A callback that refuses the
\* seek ends the read with UNEXPECTEDEND.)
C31_UnknownMetaSkipped ==
    [][(AtUnknownMeta /\ ~ub') =>
          LET L == ByteAt(Served, adapter.pos + 3)
          IN  IF adapter.pos + 4 + L <= StreamLen(Served)
              THEN /\ GoesOn
                   /\ cur_track' = cur_track
                   /\ heap' = heap
                   /\ instance' = [instance EXCEPT !.cursor = @ + 4 + L]
                   /\ adapter'.pos = instance.cursor + 4 + L
              ELSE /\ pc' = "idle"
                   /\ call'.result = BLASTMIDI_UNEXPECTEDEND
                   /\ Cleared']_vars

\* an unknown meta event of two bytes was skipped and the note after it is
\* the only event of the track
C31_NoteAfterUnknownMeta ==
    /\ pc = "events"
    /\ ~ub
    /\ adapter.file = "memory"
    /\ adapter.pos = TrackStart + 10
    /\ BytesFrom(TrackStart, 6) = TokUnknownMeta.bytes
    /\ Slot(instance.tracks, cur_track) # NULL
    /\ Slot(instance.tracks, cur_track) = Slot(instance.track_ends, cur_track)
    /\ heap[Slot(instance.tracks, cur_track)].type = BLASTMIDI_CHANNEL_EVENT


\* status bytes with the top bit set that start no event the decoder knows
OtherStatus == (241..246) \cup (248..254)

\* the read has ended with INVALIDCHUNK, the document is reset and no event
\* has come to life in the step
EndsInvalidChunk ==
    /\ pc' = "idle"
    /\ call'.op = "blastmidi_read"
    /\ call'.result = BLASTMIDI_INVALIDCHUNK
    /\ Cleared'
    /\ \A e \in Addr : ~heap'[e].live

\* C32: a track chunk whose magic of 4 bytes is not "MTrk" makes
\* blastmidi_read fail with INVALIDCHUNK (not with INVALID), and so does a
\* status byte that is neither 0xFF, 0xF0, 0xF7 nor a channel status of kind
\* 8..14 (0xF1..0xF6, 0xF8..0xFE, or a data byte when no running status is
\* remembered); no event of the offending item is attached.
C32_InvalidChunk ==
    [][/\ (/\ pc = "track"
           /\ Reading
           /\ adapter.pos + 4 <= StreamLen(Served)
           /\ BytesFrom(adapter.pos, 4) # MTrk
           /\ ~ub') => EndsInvalidChunk
       /\ (/\ AtEvent
           /\ \/ StatusByte \in OtherStatus
              \/ StatusByte < 128 /\ instance.running_status = 0
           /\ ~ub') => EndsInvalidChunk]_vars

\* a read that ended with INVALIDCHUNK after it had decoded an event: the
\* event has been released and the document is reset
C32_InvalidChunkAfterEvent ==
    /\ Returned("blastmidi_read")
    /\ call.file = "memory"
    /\ call.result = BLASTMIDI_INVALIDCHUNK
    /\ Cleared
    /\ \E e \in Addr : heap[e] = FreedEvent
    /\ \A e \in Addr : ~heap[e].live


\* the loop of read_track_events run to its end: to the end of track or to
\* an error, every allocation giving a block while there is one
RECURSIVE RunEvents(_, _)
RunEvents(w, track_id) ==
    LET free == FreeAddrs(w)
        addr == IF free = {} THEN NULL ELSE CHOOSE a \in free : TRUE
        Looped(r) ==
            IF r.result # BLASTMIDI_OK THEN [w |-> r.w, result |-> r.result]
            ELSE IF r.end_of_track = 1 THEN [w |-> r.w, result |-> BLASTMIDI_OK]
            ELSE RunEvents(r.w, track_id)
    IN  Looped(read_track_events(w, track_id, addr, TRUE))

\* read_track ( instance, track_id ) as a whole
RunTrack(w, track_id) ==
    LET Begun(t) ==
            IF t.result # BLASTMIDI_OK THEN [w |-> t.w, result |-> t.result]
            ELSE RunEvents(t.w, track_id)
    IN  Begun(read_track(w))

\* what a run leaves: its result, the bytes it consumed, the events it made
Outcome(o) ==
    [result |-> o.result, cursor |-> o.w.inst.cursor, pos |-> o.w.ad.pos,
     heap |-> o.w.heap, tracks |-> o.w.inst.tracks, track_ends |-> o.w.inst.track_ends]

\* the read is at a track chunk with the magic "MTrk" and a length field
AtChunk ==
    /\ pc = "track"
    /\ Reading
    /\ ~ub
    /\ adapter.pos + 8 <= StreamLen(Served)
    /\ BytesFrom(adapter.pos, 4) = MTrk

DeclaredSize == BytesFrom(adapter.pos + 4, 4)

\* the same data with another declared length in the chunk at the position
Resized(w, size) ==
    [w EXCEPT !.ad.stream =
        Plain([k \in 1..Len(@.head) |->
                  IF k - 1 \in (w.ad.pos + 4)..(w.ad.pos + 7)
                  THEN size[k - w.ad.pos - 4] ELSE @.head[k]])]

ZeroSize == <<0, 0, 0, 0>>

\* the track read with the length size has the outcome it has as it stands
SameOutcome(size) ==
    Outcome(RunTrack(Resized(World, size), cur_track))
        = Outcome(RunTrack(World, cur_track))

\* C33 as it stands: for every declared length of a track chunk, 0 included,
\* the same bytes give the same events, the same number of consumed bytes and
\* the same result.
C33_AnyLengthSameOutcome ==
    AtChunk => \A size \in OtherSizes : SameOutcome(size)

\* C33: the declared length of a track chunk is used only to refuse the
\* length 0: a chunk that declares 0 fails with INVALIDCHUNK after its 8
\* bytes of magic and length, with no event decoded; for every other declared
\* length, smaller or larger than the real size of the chunk, the same bytes
\* give the same events, the same number of consumed bytes and the same
\* result.
C33_NonZeroLengthSameOutcome ==
    AtChunk =>
        IF DeclaredSize = ZeroSize
        THEN LET o == RunTrack(World, cur_track)
             IN  /\ o.result = BLASTMIDI_INVALIDCHUNK
                 /\ o.w.inst.cursor = instance.cursor + 8
                 /\ o.w.heap = heap
        ELSE \A size \in OtherSizes \ {ZeroSize} : SameOutcome(size)

\* a chunk that declares the length 1 and holds a note: the note has been
\* decoded
C33_NoteInChunkOfLengthOne ==
    /\ pc = "events"
    /\ ~ub
    /\ adapter.file = "memory"
    /\ BytesFrom(TrackStart - 4, 4) = <<0, 0, 0, 1>>
    /\ adapter.pos = TrackStart + 4
    /\ Slot(instance.tracks, cur_track) # NULL
    /\ heap[Slot(instance.tracks, cur_track)].type = BLASTMIDI_CHANNEL_EVENT

----------------------------------------------------------------------------
(* convert_endian_16 and convert_endian_32 *)

\* 16 bit values: single bytes, both orders of 0x1234 and of 0x5678, the ends
\* of the range
Halves ==
    {0, 1, 18, 52, 255, 256, 4660, 13330, 22136, 30806, 32768, 43981, 65280, 65535}

EndianFlags == {1, 2}

\* the conversion applied to x, and applied to what it gave
ConvertEndian16 ==
    /\ Idle
    /\ \E x \in Halves, endian_flag \in EndianFlags :
         call' = [op |-> "convert_endian_16", result |-> BLASTMIDI_OK, oom |-> FALSE,
                  file |-> "none", args |-> <<x, endian_flag>>,
                  value |-> convert_endian_16(x, endian_flag),
                  twice |-> convert_endian_16(convert_endian_16(x, endian_flag),
                                              endian_flag)]
    /\ UNCHANGED <<instance, heap, adapter, host, leaked, ub, pc, cur_track>>

ConvertEndian32 ==
    /\ Idle
    /\ \E high \in Halves, low \in Halves, endian_flag \in EndianFlags :
         call' = [op |-> "convert_endian_32", result |-> BLASTMIDI_OK, oom |-> FALSE,
                  file |-> "none", args |-> <<(<<high, low>>), endian_flag>>,
                  value |-> convert_endian_32(<<high, low>>, endian_flag),
                  twice |-> convert_endian_32(convert_endian_32(<<high, low>>, endian_flag),
                                              endian_flag)]
    /\ UNCHANGED <<instance, heap, adapter, host, leaked, ub, pc, cur_track>>

NextEndian == ConvertEndian16 \/ ConvertEndian32

SpecEndian == Init /\ [][NextEndian]_vars

\* the bytes of a value, the most significant first, and the value of bytes
Bytes16(x) == <<x \div 256, x % 256>>
Bytes32(x) == Bytes16(x[1]) \o Bytes16(x[2])
Value16(b) == b[1] * 256 + b[2]
Value32(b) == <<Value16(<<b[1], b[2]>>), Value16(<<b[3], b[4]>>)>>

Backwards(b) == [k \in 1..Len(b) |-> b[Len(b) + 1 - k]]

\* C34: endianness conversion applied twice with the same host flag gives the
\* value back, for 16 and for 32 bits; with the little endian flag (1) it
\* reverses the order of the bytes (0x1234 -> 0x3412, 0x12345678 ->
\* 0x78563412), with the big endian flag (2) it is the identity; so an
\* integer that is big endian on the wire, read into memory, decodes to the
\* same number on a little endian host with flag 1 and on a big endian host
\* with flag 2.
C34_EndianConversion ==
    /\ Returned("convert_endian_16") =>
          LET x == call.args[1]
              endian_flag == call.args[2]
          IN  /\ call.twice = x
              /\ call.value = IF endian_flag = 1 THEN Value16(Backwards(Bytes16(x))) ELSE x
              /\ (x = 4660 /\ endian_flag = 1) => call.value = 13330
              /\ convert_endian_16(FromMem(Bytes16(x), TRUE), 1) = x
              /\ convert_endian_16(FromMem(Bytes16(x), FALSE), 2) = x
    /\ Returned("convert_endian_32") =>
          LET x == call.args[1]
              endian_flag == call.args[2]
          IN  /\ call.twice = x
              /\ call.value = IF endian_flag = 1 THEN Value32(Backwards(Bytes32(x))) ELSE x
              /\ (x = <<4660, 22136>> /\ endian_flag = 1) => call.value = <<30806, 13330>>
              /\ convert_endian_32(FromMem32(Bytes32(x), TRUE), 1) = x
              /\ convert_endian_32(FromMem32(Bytes32(x), FALSE), 2) = x

\* 0x12345678 has been converted with the little endian flag
C34_KnownPatternSwapped ==
    /\ Returned("convert_endian_32")
    /\ call.args = <<(<<4660, 22136>>), 1>>
    /\ call.value = <<30806, 13330>>
    /\ call.twice = <<4660, 22136>>

----------------------------------------------------------------------------
(* Termination of blastmidi_read *)

\* whole files behind a callback that can seek, one with running status
WholeStreams == CutStreams \cup {"pipe_running", "bad_status"}

TermBuffers ==
    CutShort \cup {AllBytes(Files[f].stream, StreamLen(Files[f].stream)) : f \in WholeStreams}

NextTerm ==
    \/ SetDataCallback({TRUE})
    \/ ReadBuffer(TermBuffers)
    \/ ReadAfresh(FailingStreams)
    \/ ReadTrack
    \/ ReadTrackEvents

\* blastmidi_read is inside its loops and nothing undefined has happened
InRead == pc \in {"track", "events"} /\ ~ub

\* read_track can take its step, and so can an iteration of the event loop
\* for some outcome of its allocations
CanStep ==
    LET After(r) == IF r.result # BLASTMIDI_OK THEN reset(r.w) ELSE r.w
    IN  /\ (pc = "track" /\ ~ub) => After(read_track(World)).leaked <= MaxLeaked
        /\ (pc = "events" /\ ~ub) =>
               \E addr \in FreeAddrs(World) \cup {NULL}, blk \in BOOLEAN :
                   After(read_track_events(World, cur_track, addr, blk)).leaked
                       <= MaxLeaked

\* blastmidi_read is one call: it does not stop between two steps while it
\* has a step to take.  This is weak fairness of ReadTrack \/ ReadTrackEvents
\* with its enabling condition written out: the two actions are the only ones
\* that can be taken where InRead holds, and there they can (CanStep).
SpecTerm ==
    Init /\ [][NextTerm]_vars /\ ([]<>(~InRead) \/ []<><<InRead>>_vars)

\* C35: blastmidi_read terminates on every finite stream whose callback fails
\* reads past the end: every iteration of the event loop of a track that does
\* not end the read in an error ends with the cursor strictly greater than at
\* its start (the step back of one byte for running status is outweighed by
\* the bytes read), and the read returns, with OK only after the end of track
\* of the last declared track, or else with an error.
C35_ReadTerminates ==
    /\ [](pc # "idle" => InRead /\ CanStep)
    /\ [][/\ (pc = "events" /\ ~ub' /\ (pc' # "idle" \/ call'.result = BLASTMIDI_OK)) =>
                 instance'.cursor > instance.cursor
          /\ (pc # "idle" /\ pc' = "idle" /\ ~ub' /\ call'.result = BLASTMIDI_OK) =>
                 /\ pc = "events"
                 /\ AtEvent
                 /\ StatusByte = 255
                 /\ ByteAt(Served, adapter.pos + 2) = BLASTMIDI_META_END_OF_TRACK
                 /\ cur_track + 1 = instance.track_count
                 /\ instance'.valid = 1]_vars
    /\ (pc # "idle") ~> (pc = "idle" /\ call.op = "blastmidi_read" /\ call.result # PENDING)

\* a read of a whole file of two tracks through a callback that can seek has
\* returned OK at the end of the data; the second event of track 0 came with
\* running status
C35_ReadWithRunningStatusReturned ==
    /\ Returned("blastmidi_read")
    /\ call.file = "memory"
    /\ call.result = BLASTMIDI_OK
    /\ instance.valid = 1
    /\ instance.track_count = 2
    /\ instance.cursor = StreamLen(Files["smpte"].stream)
    /\ Slot(instance.tracks, 0) # NULL
    /\ heap[Slot(instance.tracks, 0)].subtype = BLASTMIDI_CHANNEL_NOTE_ON
    /\ Slot(instance.track_ends, 0) # Slot(instance.tracks, 0)
    /\ heap[Slot(instance.track_ends, 0)].subtype = BLASTMIDI_CHANNEL_NOTE_ON

----------------------------------------------------------------------------
(* The lists of the tracks and the track fields of their events *)

\* in the world w every event met from the head slot of a track has that
\* track in its track field, and no event is met from two head slots
ListsOwnEvents(w) ==
    LET ids == 0..(w.inst.track_count - 1)
        Met(t) == {ForwardOf(w, t)[k] : k \in 1..Len(ForwardOf(w, t))}
    IN  /\ \A t \in ids : \A e \in Met(t) : w.heap[e].track = t
        /\ \A t1 \in ids, t2 \in ids : t1 # t2 => Met(t1) \cap Met(t2) = {}

\* the events a caller can pass as add_after: every event it holds
LiveEvents == {e \in Addr : heap[e].live}

\* C36: in every reachable state every event reachable by next from the head
\* slot of track t has its track field equal to t, and no event is reachable
\* from the head slots of two tracks; this is so also after
\* blastmidi_add_event ( track_id = t, add_after = X ) where X is attached to
\* another track or to no track.
C36_ListsOwnTheirEvents ==
    Idle =>
        /\ ListsOwnEvents(World)
        /\ \A t \in Tracks, e \in Unattached, X \in LiveEvents :
              LET r == blastmidi_add_event(World, TRUE, t, e, 7, X)
              IN  (X # e /\ r.result = BLASTMIDI_OK) => ListsOwnEvents(r.w)

----------------------------------------------------------------------------
(* A document that holds no tracks *)

\* the track ids tried on a document without tracks: low ones and the highest
AnyTrackIds == TrackIds \cup {65535}

\* the track count in the header of a file: the 16-bit field at offset 10
DeclaredTracks(file) ==
    ByteAt(Files[file].stream, 10) * 256 + ByteAt(Files[file].stream, 11)

\* what an attach call gives for the event on a document without tracks
Rejected(event) ==
    IF event # NULL /\ heap[event].track # -1
    THEN BLASTMIDI_ALREADYADDED ELSE BLASTMIDI_INVALIDPARAM

\* every attach, remove, get-first and get-last call on the document as it is
\* now is refused and changes neither the document nor the events
RejectsAll ==
    \A t \in AnyTrackIds, event \in LiveEvents \cup {NULL} :
        /\ \A add_after \in LiveEvents \cup {NULL} :
              blastmidi_add_event(World, TRUE, t, event, 7, add_after)
                  = [w |-> World, result |-> Rejected(event)]
        /\ blastmidi_add_event_to_beginning_of_track(World, TRUE, t, event, 7)
              = [w |-> World, result |-> Rejected(event)]
        /\ blastmidi_add_event_to_end_of_track(World, TRUE, t, event, 7)
              = [w |-> World, result |-> Rejected(event)]
        /\ blastmidi_remove_event_from_track(World, TRUE, t, event)
              = [w |-> World, result |-> BLASTMIDI_INVALIDPARAM]
        /\ blastmidi_get_first_event_on_track(World, TRUE, t, TRUE, event)
              = [w |-> World, result |-> BLASTMIDI_INVALIDPARAM, out |-> event]
        /\ blastmidi_get_last_event_on_track(World, TRUE, t, TRUE, event)
              = [w |-> World, result |-> BLASTMIDI_INVALIDPARAM, out |-> event]

\* a call that returned and left the document with tracks is a read that
\* returned OK, of a file that declares that many tracks, or a call on a
\* document that had them already
TracksComeFromRead ==
    (pc' = "idle" /\ instance'.track_count > 0) =>
        \/ pc = "idle" /\ instance'.track_count = instance.track_count
        \/ /\ call'.op = "blastmidi_read"
           /\ call'.result = BLASTMIDI_OK
           /\ instance'.valid = 1
           /\ instance'.track_count = DeclaredTracks(call'.file)

\* C37: a document that holds no tracks (freshly initialized, after a failed
\* read, after blastmidi_free) refuses every attach, remove, get-first and
\* get-last call with INVALIDPARAM for every track id, or with ALREADYADDED
\* for an event that is attached; a document has tracks only after a read
\* that returned OK, as many as the file declares, and an attach succeeds
\* only for a track id below that count.
C37_NoTracksNoAttach ==
    /\ []((Idle /\ instance.track_count = 0) => RejectsAll)
    /\ [](Idle =>
            \A t \in AnyTrackIds, event \in LiveEvents :
                blastmidi_add_event(World, TRUE, t, event, 7, NULL).result = BLASTMIDI_OK
                    => t < instance.track_count /\ instance.valid = 1)
    /\ [][TracksComeFromRead]_vars

\* a read failed and left no tracks while the caller holds an event
C37_EventHeldAfterFailedRead ==
    /\ Idle
    /\ instance.track_count = 0
    /\ call.op = "blastmidi_read"
    /\ call.result = BLASTMIDI_INVALID
    /\ Unattached # {}

\* blastmidi_free left no tracks while the caller holds an event
C37_EventHeldAfterFree ==
    /\ Idle
    /\ instance.track_count = 0
    /\ call.op = "blastmidi_free"
    /\ Unattached # {}

----------------------------------------------------------------------------
(* What a call on one track leaves alone *)

\* from the world w to the world v the tracks other than t keep their head
\* slot, their tail slot and every field of their events, and the document
\* keeps its track count, its format, its time division and its validity
OthersKept(w, v, t) ==
    /\ \A u \in (0..(w.inst.track_count - 1)) \ {t} :
          /\ Slot(v.inst.tracks, u) = Slot(w.inst.tracks, u)
          /\ Slot(v.inst.track_ends, u) = Slot(w.inst.track_ends, u)
          /\ \A e \in Addr :
                (w.heap[e].live /\ w.heap[e].track = ToInt16(u)) => v.heap[e] = w.heap[e]
    /\ v.inst.track_count = w.inst.track_count
    /\ v.inst.file_type = w.inst.file_type
    /\ v.inst.time_type = w.inst.time_type
    /\ v.inst.ticks_per_beat = w.inst.ticks_per_beat
    /\ v.inst.SMPTE_frames = w.inst.SMPTE_frames
    /\ v.inst.ticks_per_frame = w.inst.ticks_per_frame
    /\ v.inst.valid = w.inst.valid

\* the call returned OK without touching released memory and kept the rest
KeepsOthers(r, t) == (r.result = BLASTMIDI_OK /\ ~r.w.ub) => OthersKept(World, r.w, t)

\* the navigation call changed nothing
ChangesNothing(r) == ~r.w.ub => r.w = World

----------------------------------------------------------------------------
(* The running status across meta and sysex events *)

\* the last channel status byte in the bytes of the track from event boundary
\* p to event boundary q, 0 when there is none (delta-times and lengths of
\* one byte)
RECURSIVE LastStatusFrom(_, _, _)
LastStatusFrom(p, q, status) ==
    IF p >= q THEN status
    ELSE LET s == ByteAt(Served, p + 1)
         IN  IF s = 255
             THEN LastStatusFrom(p + 4 + ByteAt(Served, p + 3), q, status)
             ELSE IF s = 240 \/ s = 247
             THEN LastStatusFrom(p + 3 + ByteAt(Served, p + 2), q, status)
             ELSE IF s >= 128
             THEN LastStatusFrom(p + 2 + DataBytes(s), q, s)
             ELSE LastStatusFrom(p + 1 + DataBytes(status), q, status)

LastStatus == LastStatusFrom(TrackStart, adapter.pos, 0)

\* C39: within a track running_status changes only when a channel status byte
\* or a data byte in status position is processed: meta events (0xFF) and
\* sysex events (0xF0, 0xF7) leave it unchanged, so a data byte in status
\* position that follows a meta or sysex event is decoded with the status of
\* the last channel event before them.
C39_StatusSurvivesMetaAndSysex ==
    [][(AtEvent /\ GoesOn) =>
          /\ instance.running_status = LastStatus
          /\ StatusByte \in {255, 240, 247} =>
                instance'.running_status = instance.running_status
          /\ StatusByte \in 128..239 => instance'.running_status = StatusByte
          /\ StatusByte < 128 =>
                /\ instance'.running_status = instance.running_status
                /\ \E e \in Addr :
                      /\ NewEvent(e)
                      /\ heap'[e].type = BLASTMIDI_CHANNEL_EVENT
                      /\ heap'[e].subtype = LastStatus \div 16
                      /\ heap'[e].channel = LastStatus % 16
                      /\ heap'[e].data[1] = StatusByte]_vars

\* a note on, a text event, and then a data byte in status position that was
\* decoded as a note on of the same channel
C39_RunningStatusAfterMeta ==
    /\ pc = "events"
    /\ ~ub
    /\ instance.running_status = 145
    /\ Slot(instance.tracks, cur_track) # NULL
    /\ LET first == Slot(instance.tracks, cur_track)
           last == Slot(instance.track_ends, cur_track)
       IN  /\ heap[first].type = BLASTMIDI_CHANNEL_EVENT
           /\ heap[first].next \notin {NULL, last}
           /\ heap[heap[first].next].type = BLASTMIDI_META_EVENT
           /\ heap[heap[first].next].next = last
           /\ heap[last].type = BLASTMIDI_CHANNEL_EVENT
           /\ heap[last].subtype = BLASTMIDI_CHANNEL_NOTE_ON
           /\ heap[last].channel = 1
           /\ heap[last].data = <<62, 64>>

----------------------------------------------------------------------------
(* The assertions of the library *)

\* assert ( instance->cursor >= size ) of skip_backwards
assert_skip_backwards(w, size) == w.inst.cursor >= size

\* the three assertions of allocate_tracks
assert_allocate_tracks(w) ==
    /\ w.inst.track_count > 0
    /\ ~w.inst.tracks.alloc
    /\ ~w.inst.track_ends.alloc

\* assert ( endian_flag >= 1 && endian_flag <= 2 ) of convert_endian_16/32
assert_convert_endian(endian_flag) == endian_flag >= 1 /\ endian_flag <= 2

\* assert ( event ) of blastmidi_event_free
assert_event_free(event) == event # NULL

\* the assertions on the state of the library hold wherever a call reaches
\* them: every conversion takes the endian flag of the instance; a read that
\* got through the header calls allocate_tracks; an iteration of the event
\* loop that finds a data byte in status position calls skip_backwards
StateAssertionsHold ==
    /\ assert_convert_endian(instance.endian_flag)
    /\ (Idle /\ instance.data_callback) =>
          \A file \in Streams :
              LET h == read_header(reset([World EXCEPT !.ad = [file |-> file, pos |-> 0]]))
              IN  h.result = BLASTMIDI_OK => assert_allocate_tracks(h.w)
    /\ (pc = "events" /\ ~ub) =>
          LET d == read_variable_number(World)
              t == read_byte(d.w)
          IN  (d.result = BLASTMIDI_OK /\ t.result = BLASTMIDI_OK /\ t.value < 128)
                  => assert_skip_backwards(t.w, 1)

\* C40 as stated: no assertion in the library can fail on any call sequence
\* that starts with blastmidi_initialize, on any input stream and for any
\* argument the caller passes.
C40_NoAssertionFails ==
    /\ StateAssertionsHold
    /\ Idle => \A event \in UserPointers \cup {NULL} : assert_event_free(event)

\* C40 for the assertions on the state of the library: skip_backwards is only
\* reached with cursor >= 1, allocate_tracks only with track_count > 0 and
\* both track arrays NULL, and the endian flag given to convert_endian_16/32
\* is 1 or 2 in every state, also after blastmidi_initialize returned
\* INVALIDPARAM.
C40_StateAssertionsHold == StateAssertionsHold

\* a file with a running status event was read to its end: the header was
\* converted, the tracks were allocated and the cursor was taken back
C40_RunningStatusFileRead ==
    /\ pc = "idle"
    /\ call.op = "blastmidi_read"
    /\ call.result = BLASTMIDI_OK
    /\ call.file = "smpte"
    /\ instance.track_count = 2
    /\ instance.tracks.alloc

\* blastmidi_initialize returned INVALIDPARAM and left the endian flag set
C40_FlagSetAfterRefusedInitialize ==
    /\ call.op = "blastmidi_initialize"
    /\ call.result = BLASTMIDI_INVALIDPARAM
    /\ assert_convert_endian(instance.endian_flag)

====
